---- MODULE Spec2Model ----
(***************************************************************************)
(* Model of the rent-fair-value browser extension (src/content.js):        *)
(*   - XGBoostPredictor: load / predict / predictTree                      *)
(*   - the page script's init -> analyzeProperty run that drives it        *)
(*   - XGBFeatures.getPropertyTypeOneHot                                   *)
(*                                                                         *)
(* JavaScript values are tagged records [t, v]: numbers are integers       *)
(* standing for doubles, NaN / null / undefined are their own tags.        *)
(* Strings that the code inspects character by character are sequences of  *)
(* one-character strings.                                                  *)
(***************************************************************************)
EXTENDS Integers, Sequences, FiniteSets, TLC

VARIABLES
    \* ---- XGBoostPredictor fields (content.js 1947-1951)
    model,            \* this.model   : NullModel or a parsed model payload
    features,         \* this.features: NullFeatures or a parsed feature-order payload
    loaded,           \* this.loaded
    \* ---- invocations of XGBoostPredictor.load (async, content.js 1953-1973)
    loadPc,           \* per invocation slot: position inside load
    loadSnap,         \* per slot: <<model, features, loaded>> when load was called
    loadBase,         \* per slot: the local baseScore computed at line 1971
    fetchCount,       \* number of fetch() calls issued so far
    loadOK,           \* TRUE once some load invocation has returned normally after loading
    \* ---- last synchronous call of predict by a client of the class
    predictCall,      \* [called, loadOKBefore, loadedBefore, out]
    \* ---- page script (content.js 110-475)
    xgbPredictor,     \* TRUE once `xgbPredictor = new XGBoostPredictor()` has run
    isRunning,
    initPc,           \* position of the init run
    sidebar,          \* what the injected sidebar shows
    runs,             \* number of init runs started
    runLoadCalled,    \* the current / last init run has called xgbPredictor.load
    \* ---- predict executing, one loop iteration per step (content.js 1975-2037)
    featureDict,      \* argument of predict
    predPc,           \* "ready" | "walking" | "done" | "threw"
    featureArray,     \* const featureArray
    treeIdx,          \* index of the tree the for-of loop is at (1-based)
    nodeId,           \* let nodeId of predictTree
    sum,              \* let sum
    steps,            \* iterations of the while(true) loop in the current tree (saturating)
    \* ---- getPropertyTypeOneHot (content.js 2566-2626)
    propertyType,     \* argument
    typeResult,       \* returned object, or NoResult before the call
    \* ---- extractPostcodeDistrict / getPostcodeOneHot (content.js 2545-2563)
    postcode,         \* argument of extractPostcodeDistrict
    postcodeOneHot,   \* object returned by getPostcodeOneHot, or NoResult
    \* ---- extractFloors (content.js 2203-2282)
    ocrText,          \* argument
    floors,           \* returned object, or NoResult
    \* ---- detectFurnishedStatus (content.js 2372-2389)
    description,      \* argument
    furnishedStatus,  \* returned object, or NoResult
    \* ---- buildFeatures (content.js 2628-2870)
    data,             \* argument
    built,            \* returned feature vector, or NoResult
    \* ---- the tail of analyzeProperty and of init (content.js 298-326, 450-474)
    askingPrice,      \* argument of analyzeProperty
    predLog,          \* value returned by xgbPredictor.predict(features)
    result,           \* object returned by analyzeProperty, or NoResult
    displayed,        \* object handed to displayResult, or NoResult
    \* ---- SPA navigation and the init runs it starts (content.js 97-336)
    currentSite,      \* const currentSite
    href,             \* window.location.href
    lastUrl,
    floorplanClickedForProperty,
    timers,           \* pending setTimeout callbacks of handleUrlChange (line 199)
    navEvents,        \* calls of Analytics.navigationDetected so far
    urlChanges,       \* URL changes of the page so far
    runPc,            \* per init run: the await it is suspended at, or how it ended
    runFor,           \* per init run: the URL of the page its propertyData was read from
    sidebarFor,       \* the URL of the page the sidebar's content was computed from
    \* ---- the analytics module (analytics.js 27-176) and what it sends
    viewed,           \* the listing the page shows: what window.location and content.js hand in
    eventQueue,
    flushTimeout,     \* TRUE while the timer of line 117 is pending
    distinctId,       \* 0 for null
    isInitialized,
    storedId,         \* chrome.storage.local posthog_distinct_id, 0 when absent
    uuids,            \* calls of crypto.randomUUID in getDistinctId so far
    listeners,        \* beforeunload listeners added by init
    capPc,            \* per call of capture: the await it is suspended at
    capName,          \* per call of capture: eventName
    calls,            \* calls of capture so far
    flushPc,          \* per call of flush that posts: the state of its POST
    flushBatch,       \* per call of flush that posts: const events
    flushes,          \* calls of flush that posted so far
    received,         \* the events PostHog has received, in order of arrival
    unloaded,         \* the page has fired beforeunload and is gone
    storageFailed,    \* chrome.storage has rejected a request of this page
    \* ---- ocrFloorplan and the analyzeProperty that awaits it (content.js 346-422, 1400-1523)
    tesseractLoaded,  \* typeof Tesseract !== 'undefined'
    pageSqft,         \* let sizeSqft as read from the page, 0 when not found
    bedsOnPage,       \* const beds
    ocrPc,            \* the await ocrFloorplan is suspended at, or how its promise settled
    ocrWorker,        \* let worker is set
    ocrPending,       \* the completion the finally block will let through
    ocrFailure,       \* what went wrong in this call, "none" if nothing
    ocrSettled,       \* the value the promise resolved with, or NoResult
    sizing            \* analyzeProperty after the await: [pc, ocrText, sizeSqft, sizeSource]

predictorVars == <<model, features, loaded>>
loadVars      == <<loadPc, loadSnap, loadBase, fetchCount, loadOK>>
clientVars    == <<predictCall>>
pageVars      == <<xgbPredictor, isRunning, initPc, sidebar, runs, runLoadCalled>>
evalVars      == <<featureDict, predPc, featureArray, treeIdx, nodeId, sum, steps>>
typeVars      == <<propertyType, typeResult>>
postcodeVars  == <<postcode, postcodeOneHot>>
floorVars     == <<ocrText, floors>>
furnishedVars == <<description, furnishedStatus>>
buildVars     == <<data, built>>
featureVars   == <<postcodeVars, floorVars, furnishedVars, buildVars>>
resultVars    == <<askingPrice, predLog, result, displayed>>
navVars       == <<currentSite, href, lastUrl, floorplanClickedForProperty, timers,
                   navEvents, urlChanges, runPc, runFor, sidebarFor>>
anaVars       == <<viewed, eventQueue, flushTimeout, distinctId, isInitialized, storedId,
                   uuids, listeners, capPc, capName, calls, flushPc, flushBatch, flushes,
                   received, unloaded, storageFailed>>
ocrVars       == <<tesseractLoaded, pageSqft, bedsOnPage, ocrPc, ocrWorker, ocrPending,
                   ocrFailure, ocrSettled, sizing>>
extVars       == <<navVars, anaVars, ocrVars>>
vars == <<predictorVars, loadVars, clientVars, pageVars, evalVars, typeVars,
          featureVars, resultVars, extVars>>

-----------------------------------------------------------------------------
(* Bounds *)

\* length of every tree's node arrays in the enumerated artifacts
MaxNodes == 3

\* invocations of XGBoostPredictor.load that are followed (each slot is one call)
MaxLoads == 2

\* init runs of the page script that are followed
MaxRuns == 3

-----------------------------------------------------------------------------
(* JavaScript values *)

Num(n)    == [t |-> "num", v |-> n]
NaN       == [t |-> "nan", v |-> 0]
Null      == [t |-> "null", v |-> 0]
Undefined == [t |-> "undefined", v |-> 0]
Diverges  == [t |-> "diverges", v |-> 0]   \* a call that never returns

IsNum(x)     == x.t = "num"
IsNullish(x) == x.t \in {"null", "undefined"}

\* a ?? b
Coalesce(a, b) == IF IsNullish(a) THEN b ELSE a

\* a < b on JS numbers: false when either side is NaN
LessJS(a, b) == IsNum(a) /\ IsNum(b) /\ a.v < b.v

\* a + b on JS numbers
AddJS(a, b) ==
    IF a.t = "diverges" \/ b.t = "diverges" THEN Diverges
    ELSE IF IsNum(a) /\ IsNum(b) THEN Num(a.v + b.v) ELSE NaN

\* truthiness of a JS value used as a condition
Truthy(x) == IsNum(x) /\ x.v # 0

\* arr[idx] for an array of JSON numbers; idx is a JS value
NumAt(arr, idx) ==
    IF IsNum(idx) /\ idx.v >= 0 /\ idx.v < Len(arr) THEN Num(arr[idx.v + 1]) ELSE Undefined

\* arr[idx] for an array of JS values
ElemAt(arr, idx) ==
    IF IsNum(idx) /\ idx.v >= 0 /\ idx.v < Len(arr) THEN arr[idx.v + 1] ELSE Undefined

-----------------------------------------------------------------------------
(* parseFloat and the base_score normalisation *)

DigitChars == <<"0", "1", "2", "3", "4", "5", "6", "7", "8", "9">>
IsDigit(c) == \E i \in 1..10 : DigitChars[i] = c
DigitVal(c) == (CHOOSE i \in 1..10 : DigitChars[i] = c) - 1

RECURSIVE DigitPrefixLen(_)
DigitPrefixLen(s) ==
    IF s = <<>> \/ ~IsDigit(Head(s)) THEN 0 ELSE 1 + DigitPrefixLen(Tail(s))

RECURSIVE DecValue(_)
DecValue(s) ==
    IF s = <<>> THEN 0 ELSE 10 * DecValue(SubSeq(s, 1, Len(s) - 1)) + DigitVal(s[Len(s)])

RECURSIVE SkipSpaces(_)
SkipSpaces(s) == IF s # <<>> /\ Head(s) = " " THEN SkipSpaces(Tail(s)) ELSE s

\* parseFloat of a string: leading blanks, optional sign, the longest digit prefix;
\* NaN when there is no digit (integer literals stand for all numeric literals)
ParseFloatChars(s) ==
    LET t    == SkipSpaces(s)
        neg  == t # <<>> /\ Head(t) = "-"
        body == IF t # <<>> /\ Head(t) \in {"-", "+"} THEN Tail(t) ELSE t
        n    == DigitPrefixLen(body)
    IN  IF n = 0 THEN NaN
        ELSE Num((IF neg THEN -1 ELSE 1) * DecValue(SubSeq(body, 1, n)))

\* parseFloat of a value that is a number or undefined
ParseFloatValue(x) == IF IsNum(x) THEN x ELSE NaN

\* The forms base_score takes in a model payload
RawNumber(n)        == [kind |-> "number", num |-> n, str |-> <<>>]
RawString(s)        == [kind |-> "string", num |-> 0, str |-> s]
RawArrayOfNumber(n) == [kind |-> "arrayOfNumber", num |-> n, str |-> <<>>]
RawArrayOfString(s) == [kind |-> "arrayOfString", num |-> 0, str |-> s]
RawEmptyArray       == [kind |-> "emptyArray", num |-> 0, str |-> <<>>]
RawAbsent           == [kind |-> "absent", num |-> 0, str |-> <<>>]

NotBracket(c) == c \notin {"[", "]"}

\* baseScoreRaw.replace(/[\[\]]/g, '')
StripBrackets(s) == SelectSeq(s, NotBracket)

\* lines 1966-1970 and 1983-1988:
\*   if (typeof baseScoreRaw === 'string') baseScoreRaw = baseScoreRaw.replace(...)
\*   parseFloat(Array.isArray(baseScoreRaw) ? baseScoreRaw[0] : baseScoreRaw)
NormaliseBaseScore(raw) ==
    CASE raw.kind = "number"        -> Num(raw.num)
      [] raw.kind = "string"        -> ParseFloatChars(StripBrackets(raw.str))
      [] raw.kind = "arrayOfNumber" -> Num(raw.num)
      [] raw.kind = "arrayOfString" -> ParseFloatChars(raw.str)
      [] OTHER                      -> NaN

-----------------------------------------------------------------------------
(* Artifacts *)

FeatureOrder == <<"f0", "f1">>
FeatureNames == {FeatureOrder[i] : i \in 1..Len(FeatureOrder)}

\* this.model = null, and a parsed model payload:
\*   learner_model_param: model.learner.learner_model_param can be read
\*   gradient_booster   : model.learner.gradient_booster.model.trees can be read
NullModel == [isNull |-> TRUE, learner_model_param |-> FALSE, base_score |-> RawAbsent,
              gradient_booster |-> FALSE, trees |-> <<>>]
ModelPayload(hasParam, raw, hasBooster, trees) ==
    [isNull |-> FALSE, learner_model_param |-> hasParam, base_score |-> raw,
     gradient_booster |-> hasBooster, trees |-> trees]

\* this.features = null (also what a payload `null` parses to), or an array of names
NullFeatures == [isNull |-> TRUE, names |-> <<>>]
FeaturesPayload(names) == [isNull |-> FALSE, names |-> names]

\* A tree of the XGBoost JSON format: parallel arrays indexed by node id
MkTree(left, right, idx, cond, hasDefault, dflt) ==
    [left_children |-> left, right_children |-> right, split_indices |-> idx,
     split_conditions |-> cond, has_default_left |-> hasDefault, default_left |-> dflt]

\* a single leaf
Stump == MkTree(<<-1>>, <<-1>>, <<0>>, <<2>>, TRUE, <<0>>)

-----------------------------------------------------------------------------
(* XGBoostPredictor.predict / predictTree as functions *)

\* featureArrayOf with the default of a missing name changed to 1
featureArrayOfDefaultOne(names, dict) ==
    [i \in 1..Len(names) |-> Coalesce(dict[names[i]], Num(1))]

\* const featureArray = this.features.map(name => featureDict[name] ?? 0)
featureArrayOf(names, dict) ==
    [i \in 1..Len(names) |-> Coalesce(dict[names[i]], Num(0))]

\* TreeStep with the comparison `<` changed to `<=`
TreeStepLessOrEqual(tree, feats, node) ==
    LET leftChildren   == NumAt(tree.left_children, node)
        rightChildren  == NumAt(tree.right_children, node)
        splitIndex     == NumAt(tree.split_indices, node)
        splitCondition == ParseFloatValue(NumAt(tree.split_conditions, node))
        featureValue   == Coalesce(ElemAt(feats, splitIndex), Num(0))
        defaultLeft    == IF tree.has_default_left
                          THEN Truthy(NumAt(tree.default_left, node))
                          ELSE TRUE
    IN  IF leftChildren = Num(-1)
        THEN [leaf |-> TRUE, value |-> splitCondition, next |-> node]
        ELSE IF IsNullish(featureValue) \/ featureValue.t = "nan"
        THEN [leaf |-> FALSE, value |-> NaN,
              next |-> IF defaultLeft THEN leftChildren ELSE rightChildren]
        ELSE IF IsNum(featureValue) /\ IsNum(splitCondition)
                /\ featureValue.v <= splitCondition.v
        THEN [leaf |-> FALSE, value |-> NaN, next |-> leftChildren]
        ELSE [leaf |-> FALSE, value |-> NaN, next |-> rightChildren]

\* One iteration of the while (true) loop of predictTree (lines 2009-2035):
\* either the return of a leaf value or the next nodeId
TreeStep(tree, feats, node) ==
    LET leftChildren   == NumAt(tree.left_children, node)
        rightChildren  == NumAt(tree.right_children, node)
        splitIndex     == NumAt(tree.split_indices, node)
        splitCondition == ParseFloatValue(NumAt(tree.split_conditions, node))
        featureValue   == Coalesce(ElemAt(feats, splitIndex), Num(0))
        defaultLeft    == IF tree.has_default_left
                          THEN Truthy(NumAt(tree.default_left, node))
                          ELSE TRUE
    IN  IF leftChildren = Num(-1)
        THEN [leaf |-> TRUE, value |-> splitCondition, next |-> node]
        ELSE IF IsNullish(featureValue) \/ featureValue.t = "nan"
        THEN [leaf |-> FALSE, value |-> NaN,
              next |-> IF defaultLeft THEN leftChildren ELSE rightChildren]
        ELSE IF LessJS(featureValue, splitCondition)
        THEN [leaf |-> FALSE, value |-> NaN, next |-> leftChildren]
        ELSE [leaf |-> FALSE, value |-> NaN, next |-> rightChildren]

\* predictTree from `node`, giving up (Diverges) after `fuel` iterations; a walk
\* that returns at all returns within Len(left_children) + 1 iterations, because
\* once nodeId leaves the array it stays undefined
RECURSIVE Walk(_, _, _, _)
Walk(tree, feats, node, fuel) ==
    LET r == TreeStep(tree, feats, node)
    IN  IF r.leaf THEN r.value
        ELSE IF fuel = 0 THEN Diverges
        ELSE Walk(tree, feats, r.next, fuel - 1)

predictTree(tree, feats) == Walk(tree, feats, Num(0), Len(tree.left_children) + 1)

\* for (const tree of trees) sum += this.predictTree(tree, featureArray)
RECURSIVE SumTrees(_, _, _)
SumTrees(trees, feats, acc) ==
    IF trees = <<>> THEN acc
    ELSE SumTrees(Tail(trees), feats, AddJS(acc, predictTree(Head(trees), feats)))

\* What stops predict before the loop: the not-loaded guard (1976-1978), or a
\* TypeError from this.features.map / the property path to base_score / trees
PredictFailure(m, f, ld) ==
    IF ~ld THEN "Model not loaded"
    ELSE IF f.isNull \/ m.isNull \/ ~m.learner_model_param \/ ~m.gradient_booster
    THEN "TypeError"
    ELSE "none"

Threw(err)    == [kind |-> "threw", error |-> err, value |-> Undefined]
Returned(val) == [kind |-> "returned", error |-> "none", value |-> val]
NoOutcome     == [kind |-> "none", error |-> "none", value |-> Undefined]

\* predict(featureDict) on a predictor in state (m, f, ld), as one call
predict(m, f, ld, dict) ==
    IF PredictFailure(m, f, ld) # "none" THEN Threw(PredictFailure(m, f, ld))
    ELSE Returned(SumTrees(m.trees, featureArrayOf(f.names, dict),
                           NormaliseBaseScore(m.base_score)))

-----------------------------------------------------------------------------
(* Enumerated inputs of the evaluator *)

\* children of one node: a leaf, or a pair of consecutive node ids (the layout
\* XGBoost writes); pairs pointing at or before the node form cycles, the pair
\* <<MaxNodes - 1, MaxNodes>> has its right child outside the arrays
ChildPairs == {<<-1, -1>>} \cup {<<l, l + 1>> : l \in 0..(MaxNodes - 1)}

\* thresholds and leaf values share split_conditions
SplitValues == {0, 1}

DefaultLefts == {[has |-> FALSE, bit |-> 0], [has |-> TRUE, bit |-> 0], [has |-> TRUE, bit |-> 1]}

EvalTrees ==
    {MkTree([i \in 1..MaxNodes |-> sh[i][1]], [i \in 1..MaxNodes |-> sh[i][2]],
            [i \in 1..MaxNodes |-> (i - 1) % Len(FeatureOrder)], sc,
            dl.has, [i \in 1..MaxNodes |-> dl.bit]) :
        sh \in [1..MaxNodes -> ChildPairs], sc \in [1..MaxNodes -> SplitValues],
        dl \in DefaultLefts}

EvalBaseScore == RawString(<<"[", "5", "]">>)

EvalModels ==
    {ModelPayload(TRUE, EvalBaseScore, TRUE, ts) :
        ts \in {<<t>> : t \in EvalTrees} \cup {<<Stump, t>> : t \in EvalTrees}}

DictValues == {Undefined, Null, NaN, Num(0), Num(1)}
FeatureDicts == [FeatureNames -> DictValues]

-----------------------------------------------------------------------------
(* predict executing step by step *)

\* lines 1975-1994: guard, featureArray, baseScore, let sum = baseScore
PredictBegin ==
    /\ predPc = "ready"
    /\ IF PredictFailure(model, features, loaded) # "none"
       THEN /\ predPc' = "threw"
            /\ UNCHANGED <<featureArray, treeIdx, nodeId, sum, steps>>
       ELSE /\ featureArray' = featureArrayOf(features.names, featureDict)
            /\ sum' = NormaliseBaseScore(model.base_score)
            /\ steps' = 0
            /\ IF model.trees = <<>>
               THEN predPc' = "done" /\ UNCHANGED <<treeIdx, nodeId>>
               ELSE predPc' = "walking" /\ treeIdx' = 1 /\ nodeId' = Num(0)
    /\ UNCHANGED <<featureDict, predictorVars, loadVars, clientVars, pageVars, typeVars, featureVars, resultVars, extVars>>

\* one iteration of predictTree's loop; on a leaf, `sum +=` and the next tree
PredictTreeIteration ==
    /\ predPc = "walking"
    /\ LET r == TreeStep(model.trees[treeIdx], featureArray, nodeId)
       IN  IF r.leaf
           THEN /\ sum' = AddJS(sum, r.value)
                /\ steps' = 0
                /\ IF treeIdx < Len(model.trees)
                   THEN treeIdx' = treeIdx + 1 /\ nodeId' = Num(0) /\ predPc' = "walking"
                   ELSE predPc' = "done" /\ UNCHANGED <<treeIdx, nodeId>>
           ELSE /\ nodeId' = r.next
                /\ steps' = IF steps <= MaxNodes THEN steps + 1 ELSE steps
                /\ UNCHANGED <<sum, treeIdx, predPc>>
    /\ UNCHANGED <<featureDict, featureArray, predictorVars, loadVars, clientVars,
                   pageVars, typeVars, featureVars, resultVars, extVars>>

-----------------------------------------------------------------------------
(* Initial values of each group of variables *)

Slots == 1..MaxLoads

\* constructor() of XGBoostPredictor
PredictorFresh == model = NullModel /\ features = NullFeatures /\ loaded = FALSE

LoadIdle ==
    /\ loadPc = [i \in Slots |-> "idle"]
    /\ loadSnap = [i \in Slots |-> <<NullModel, NullFeatures, FALSE>>]
    /\ loadBase = [i \in Slots |-> Undefined]
    /\ fetchCount = 0

NoPredictCall == [called |-> FALSE, loadOKBefore |-> FALSE, loadedBefore |-> FALSE,
                  out |-> NoOutcome]

ClientIdle == predictCall = NoPredictCall

PageIdle ==
    /\ xgbPredictor = FALSE
    /\ isRunning = FALSE
    /\ initPc = "idle"
    /\ sidebar = "none"
    /\ runs = 0
    /\ runLoadCalled = FALSE

EvalIdle ==
    /\ featureDict = [n \in FeatureNames |-> Undefined]
    /\ predPc = "ready"
    /\ featureArray = <<>>
    /\ treeIdx = 0
    /\ nodeId = Undefined
    /\ sum = Undefined
    /\ steps = 0

NoResult == [n \in {} |-> 0]

TypeIdle == propertyType = <<>> /\ typeResult = NoResult

PostcodeIdle  == postcode = <<>> /\ postcodeOneHot = NoResult
FloorsIdle    == ocrText = <<>> /\ floors = NoResult
FurnishedIdle == description = <<>> /\ furnishedStatus = NoResult
BuildIdle     == data = <<>> /\ built = NoResult
FeaturesIdle  == PostcodeIdle /\ FloorsIdle /\ FurnishedIdle /\ BuildIdle

ResultIdle ==
    /\ askingPrice = 0
    /\ predLog = Undefined
    /\ result = NoResult
    /\ displayed = NoResult

NavIdle ==
    /\ currentSite = <<>>
    /\ href = <<>>
    /\ lastUrl = <<>>
    /\ floorplanClickedForProperty = <<>>
    /\ timers = 0
    /\ navEvents = 0
    /\ urlChanges = 0
    /\ runPc = <<>>
    /\ runFor = <<>>
    /\ sidebarFor = <<>>

AnaIdle ==
    /\ viewed = <<>>
    /\ eventQueue = <<>>
    /\ flushTimeout = FALSE
    /\ distinctId = 0
    /\ isInitialized = FALSE
    /\ storedId = 0
    /\ uuids = 0
    /\ listeners = 0
    /\ capPc = <<>>
    /\ capName = <<>>
    /\ calls = 0
    /\ flushPc = <<>>
    /\ flushBatch = <<>>
    /\ flushes = 0
    /\ received = <<>>
    /\ unloaded = FALSE
    /\ storageFailed = FALSE

OcrIdle ==
    /\ tesseractLoaded = FALSE
    /\ pageSqft = 0
    /\ bedsOnPage = 0
    /\ ocrPc = "idle"
    /\ ocrWorker = FALSE
    /\ ocrPending = NoResult
    /\ ocrFailure = "none"
    /\ ocrSettled = NoResult
    /\ sizing = NoResult

ExtIdle == NavIdle /\ AnaIdle /\ OcrIdle

-----------------------------------------------------------------------------
(* Specification of the evaluator: predict on every enumerated artifact and  *)
(* feature dictionary, on a predictor that has loaded it (or is still fresh) *)

InitEvaluate ==
    /\ \/ PredictorFresh /\ loadOK = FALSE
       \/ /\ model \in EvalModels
          /\ features = FeaturesPayload(FeatureOrder)
          /\ loaded = TRUE
          /\ loadOK = TRUE
    /\ featureDict \in FeatureDicts
    /\ predPc = "ready" /\ featureArray = <<>> /\ treeIdx = 0
    /\ nodeId = Undefined /\ sum = Undefined /\ steps = 0
    /\ LoadIdle /\ ClientIdle /\ PageIdle /\ TypeIdle /\ FeaturesIdle /\ ResultIdle /\ ExtIdle

NextEvaluate == PredictBegin \/ PredictTreeIteration

SpecEvaluate == InitEvaluate /\ [][NextEvaluate]_vars

-----------------------------------------------------------------------------
(* Properties of the evaluator *)

\* The traversal rule as the contract words it, on plain numbers: a path is a
\* sequence of node ids from node 0 to a leaf (left_children = -1), each step
\* going to left_children when the feature value is < split_conditions and to
\* right_children otherwise
NodePaths(tree) ==
    UNION {[1..k -> 0..(Len(tree.left_children) - 1)] : k \in 1..Len(tree.left_children)}

IsRulePath(tree, feats, p) ==
    /\ p[1] = 0
    /\ tree.left_children[p[Len(p)] + 1] = -1
    /\ \A j \in 1..(Len(p) - 1) :
          /\ tree.left_children[p[j] + 1] # -1
          /\ p[j + 1] = IF feats[tree.split_indices[p[j] + 1] + 1].v
                             < tree.split_conditions[p[j] + 1]
                          THEN tree.left_children[p[j] + 1]
                          ELSE tree.right_children[p[j] + 1]

RuleLeafValues(tree, feats) ==
    {tree.split_conditions[p[Len(p)] + 1] : p \in {q \in NodePaths(tree) : IsRulePath(tree, feats, q)}}

RECURSIVE RuleSum(_, _)
RuleSum(trees, feats) ==
    IF trees = <<>> THEN 0
    ELSE (CHOOSE v \in RuleLeafValues(Head(trees), feats) : TRUE) + RuleSum(Tail(trees), feats)

AllNumbers(feats) == \A i \in 1..Len(feats) : IsNum(feats[i])

\* a tree whose root splits feature 0 and whose two children are leaves
IsSingleSplit(tree) ==
    /\ Len(tree.left_children) >= 3
    /\ tree.left_children[1] = 1 /\ tree.right_children[1] = 2
    /\ tree.left_children[2] = -1 /\ tree.left_children[3] = -1
    /\ tree.split_indices[1] = 0

\* C6: when predict has returned for a feature array of numbers, the score is
\* baseScore plus, for each tree, split_conditions at the leaf reached from node 0
\* by going left when the value is < the threshold and right otherwise (equal goes
\* right), a leaf being a node with left_children = -1; and for a single-split tree
\* with threshold T, value T-1 gives B + leftLeaf and value T gives B + rightLeaf.
PredictFollowsSplitRule ==
    (predPc = "done" /\ AllNumbers(featureArray)) =>
        /\ \A i \in 1..Len(model.trees) :
              Cardinality(RuleLeafValues(model.trees[i], featureArray)) = 1
        /\ sum = Num(NormaliseBaseScore(model.base_score).v + RuleSum(model.trees, featureArray))
        /\ \A i \in 1..Len(model.trees) :
              (Len(model.trees) = 1 /\ IsSingleSplit(model.trees[i])) =>
                 LET tree == model.trees[i]
                     T    == tree.split_conditions[1]
                     B    == NormaliseBaseScore(model.base_score).v
                 IN  /\ featureArray[1] = Num(T - 1) => sum = Num(B + tree.split_conditions[2])
                     /\ featureArray[1] = Num(T)     => sum = Num(B + tree.split_conditions[3])

\* C6 witness: predict returned on a two-tree ensemble whose second tree is a
\* single split with a feature value equal to the threshold
PredictFollowsSplitRuleWitness ==
    /\ predPc = "done"
    /\ Len(model.trees) = 2
    /\ IsSingleSplit(model.trees[2])
    /\ featureArray[1] = Num(model.trees[2].split_conditions[1])
    /\ model.trees[2].split_conditions[2] # model.trees[2].split_conditions[3]
    /\ AllNumbers(featureArray)

\* the node predictTree is at is a split node inside the arrays
AtSplitNode ==
    /\ predPc = "walking"
    /\ IsNum(nodeId) /\ nodeId.v >= 0 /\ nodeId.v < Len(model.trees[treeIdx].left_children)
    /\ model.trees[treeIdx].left_children[nodeId.v + 1] # -1

\* name of the feature the current node splits on
SplitFeatureName == FeatureOrder[model.trees[treeIdx].split_indices[nodeId.v + 1] + 1]

\* C7: at a split node whose feature is present in the vector with value NaN or
\* null, the traversal moves to left_children[node] if default_left[node] is true
\* and to right_children[node] otherwise, whatever the threshold.
MissingValueFollowsDefaultLeft ==
    [][(/\ AtSplitNode
        /\ model.trees[treeIdx].has_default_left
        /\ featureDict[SplitFeatureName] \in {NaN, Null})
       => nodeId' = IF model.trees[treeIdx].default_left[nodeId.v + 1] # 0
                    THEN Num(model.trees[treeIdx].left_children[nodeId.v + 1])
                    ELSE Num(model.trees[treeIdx].right_children[nodeId.v + 1])]_vars

\* C8: for every name n of the feature order, predict on a vector that omits n
\* returns the same score as predict on the vector with n set to 0.
OmittedNameEqualsZero ==
    predPc = "done" =>
        \A n \in FeatureNames :
            featureDict[n] = Undefined =>
                Returned(sum) = predict(model, features, loaded,
                                        [featureDict EXCEPT ![n] = Num(0)])

\* C8 witness: predict returned for a vector that omits f0 on a tree whose root
\* splits f0 at a threshold above 0
OmittedNameEqualsZeroWitness ==
    /\ predPc = "done"
    /\ featureDict["f0"] = Undefined
    /\ featureDict["f1"] = Num(1)
    /\ Len(model.trees) = 1
    /\ IsSingleSplit(model.trees[1])
    /\ model.trees[1].split_conditions[1] = 1

\* C9: predictTree reaches a leaf after at most depth-of-tree iterations (the
\* depth is below the number of nodes), for every tree, also one whose child
\* arrays hold a cycle or an index outside the arrays.
PredictTreeTerminates ==
    predPc = "walking" => steps <= Len(model.trees[treeIdx].left_children)

-----------------------------------------------------------------------------
(* XGBoostPredictor.load, one step per await *)

\* what the two responses can parse to
PayloadTree == MkTree(<<1, -1, -1>>, <<2, -1, -1>>, <<0, 0, 0>>, <<1, 10, 20>>,
                      TRUE, <<1, 0, 0>>)

BaseScoreForms ==
    {RawNumber(8), RawArrayOfNumber(8), RawString(<<"[", "8", "]">>),
     RawArrayOfString(<<"8">>), RawString(<<"a", "b", "c">>), RawEmptyArray, RawAbsent}

ModelPayloads ==
    {ModelPayload(TRUE, raw, TRUE, <<PayloadTree>>) : raw \in BaseScoreForms}
    \cup {ModelPayload(FALSE, RawAbsent, FALSE, <<>>),     \* JSON without learner
          ModelPayload(TRUE, RawNumber(8), FALSE, <<>>),   \* no gradient_booster
          NullModel}                                       \* JSON null

FeaturesPayloads == {FeaturesPayload(FeatureOrder), NullFeatures}

\* LoadCallBody with the `if (this.loaded) return` guard dropped
LoadCallBodyUnguarded(i) ==
    /\ loadPc[i] = "idle"
    /\ loadSnap' = [loadSnap EXCEPT ![i] = <<model, features, loaded>>]
    /\ loadPc' = [loadPc EXCEPT ![i] = "fetching"]
    /\ fetchCount' = fetchCount + 2
    /\ UNCHANGED <<predictorVars, loadBase, loadOK>>

\* lines 1953-1960: the call of load up to `await Promise.all([fetch, fetch])`
LoadCallBody(i) ==
    /\ loadPc[i] = "idle"
    /\ loadSnap' = [loadSnap EXCEPT ![i] = <<model, features, loaded>>]
    /\ IF loaded
       THEN loadPc' = [loadPc EXCEPT ![i] = "noop"] /\ UNCHANGED fetchCount
       ELSE loadPc' = [loadPc EXCEPT ![i] = "fetching"] /\ fetchCount' = fetchCount + 2
    /\ UNCHANGED <<predictorVars, loadBase, loadOK>>

\* lines 1957-1960: Promise.all settles
LoadFetchesSettle(i) ==
    /\ loadPc[i] = "fetching"
    /\ \/ loadPc' = [loadPc EXCEPT ![i] = "threw"]         \* a fetch rejected
       \/ loadPc' = [loadPc EXCEPT ![i] = "parseModel"]
    /\ UNCHANGED <<predictorVars, loadSnap, loadBase, fetchCount, loadOK>>

\* line 1962: this.model = await modelRes.json()
LoadModelJson(i) ==
    /\ loadPc[i] = "parseModel"
    /\ \/ loadPc' = [loadPc EXCEPT ![i] = "threw"] /\ UNCHANGED model   \* invalid JSON
       \/ \E m \in ModelPayloads :
             model' = m /\ loadPc' = [loadPc EXCEPT ![i] = "parseFeatures"]
    /\ UNCHANGED <<features, loaded, loadSnap, loadBase, fetchCount, loadOK>>

\* lines 1963-1972: this.features = await featuresRes.json(); this.loaded = true;
\* then the base_score normalisation and the console.log, which read
\* model.learner.learner_model_param.base_score,
\* model.learner.gradient_booster.model.trees.length and features.length
LoadFeaturesJson(i) ==
    /\ loadPc[i] = "parseFeatures"
    /\ \/ /\ loadPc' = [loadPc EXCEPT ![i] = "threw"]                   \* invalid JSON
          /\ UNCHANGED <<features, loaded, loadBase, loadOK>>
       \/ \E f \in FeaturesPayloads :
             /\ features' = f
             /\ loaded' = TRUE
             /\ IF model.isNull \/ ~model.learner_model_param
                   \/ ~model.gradient_booster \/ f.isNull
                THEN /\ loadPc' = [loadPc EXCEPT ![i] = "threw"]        \* TypeError
                     /\ UNCHANGED <<loadBase, loadOK>>
                ELSE /\ loadPc' = [loadPc EXCEPT ![i] = "done"]
                     /\ loadBase' = [loadBase EXCEPT ![i] = NormaliseBaseScore(model.base_score)]
                     /\ loadOK' = TRUE
    /\ UNCHANGED <<model, loadSnap, fetchCount>>

-----------------------------------------------------------------------------
(* Specification of the class: any client calling load and predict *)

ClientDicts == {[n \in FeatureNames |-> Undefined], [n \in FeatureNames |-> Num(1)]}

ClientLoad(i) ==
    /\ LoadCallBody(i)
    /\ UNCHANGED <<clientVars, pageVars, evalVars, typeVars, featureVars, resultVars, extVars>>

ClientLoadStep(i) ==
    /\ \/ LoadFetchesSettle(i)
       \/ LoadModelJson(i)
       \/ LoadFeaturesJson(i)
    /\ UNCHANGED <<clientVars, pageVars, evalVars, typeVars, featureVars, resultVars, extVars>>

\* a synchronous call of predict, between any two steps of the loads in flight
ClientPredict(dict) ==
    /\ predictCall' = [called |-> TRUE, loadOKBefore |-> loadOK, loadedBefore |-> loaded,
                       out |-> predict(model, features, loaded, dict)]
    /\ UNCHANGED <<predictorVars, loadVars, pageVars, evalVars, typeVars, featureVars, resultVars, extVars>>

InitPredictor ==
    /\ PredictorFresh /\ LoadIdle /\ loadOK = FALSE
    /\ ClientIdle /\ PageIdle /\ EvalIdle /\ TypeIdle /\ FeaturesIdle /\ ResultIdle /\ ExtIdle

NextPredictor ==
    \/ \E i \in Slots : ClientLoad(i)
    \/ \E i \in Slots : ClientLoadStep(i)
    \/ \E d \in ClientDicts : ClientPredict(d)

SpecPredictor == InitPredictor /\ [][NextPredictor]_vars

-----------------------------------------------------------------------------
(* Properties of load and predict *)

InFlight(i) == loadPc[i] \in {"fetching", "parseModel", "parseFeatures"}

\* C1: predict called on a predictor whose load has not completed successfully
\* throws the not-loaded error and returns no score; a score is only returned in
\* a state where loaded is true.
PredictNeedsCompletedLoad ==
    predictCall.called =>
        /\ ~predictCall.loadOKBefore => predictCall.out = Threw("Model not loaded")
        /\ predictCall.out.kind = "returned" => predictCall.loadedBefore

\* C2: when load fails at any step the predictor is exactly as before the call
\* (loaded false, model and features unset); with no load in flight, model and
\* features are set together and loaded = TRUE goes with a usable artifact.
FailedLoadLeavesPredictorUnchanged ==
    /\ \A i \in Slots :
          (loadPc[i] = "threw" /\ \A j \in Slots \ {i} : loadPc[j] = "idle") =>
              <<model, features, loaded>> = loadSnap[i]
    /\ (\A i \in Slots : ~InFlight(i)) =>
          /\ model.isNull <=> features.isNull
          /\ loaded => PredictFailure(model, features, loaded) = "none"

\* C3: load never completes successfully with a base score that does not
\* normalise to a finite number.
LoadRejectsNonFiniteBaseScore ==
    \A i \in Slots : loadPc[i] = "done" => IsNum(loadBase[i])

\* C4: once a load has completed successfully, every further call of load
\* returns without issuing a fetch and leaves model, features and loaded as
\* they are.
LoadAfterSuccessIsNoOp ==
    [][\A i \in Slots :
          (loadOK /\ loadPc[i] = "idle" /\ loadPc'[i] # "idle") =>
              /\ loadPc'[i] = "noop"
              /\ fetchCount' = fetchCount
              /\ <<model, features, loaded>>' = <<model, features, loaded>>]_vars

\* C4 witness: a call of load that returned at the guard after another call had
\* loaded the artifact
LoadAfterSuccessIsNoOpWitness ==
    /\ loadOK
    /\ \E i, j \in Slots : loadPc[i] = "done" /\ loadPc[j] = "noop"
    /\ fetchCount = 2

-----------------------------------------------------------------------------
(* The page script: init -> analyzeProperty (content.js 226-475) *)

\* the feature dictionary buildFeatures hands to predict in an init run
PageDict == [n \in FeatureNames |-> Num(1)]

\* the slot of the only load call the page script can make
PageSlot == 1

\* init() from its guard to the first await inside analyzeProperty (lines 226-295,
\* 338-403): a call made while isRunning returns at once; otherwise the sidebar
\* is removed and the run ends early without property data, for a short let, or
\* for an unparsable price
InitStart ==
    /\ ~isRunning
    /\ runs < MaxRuns
    /\ runs' = runs + 1
    /\ runLoadCalled' = FALSE
    /\ \/ /\ sidebar' = "none"                       \* no property data
          /\ UNCHANGED <<isRunning, initPc>>
       \/ /\ sidebar' = "shortLetWarning"
          /\ UNCHANGED <<isRunning, initPc>>
       \/ /\ sidebar' = "error: Could not parse price"
          /\ UNCHANGED <<isRunning, initPc>>
       \/ /\ sidebar' = "loading"
          /\ isRunning' = TRUE
          /\ initPc' = "floorplan"
    /\ UNCHANGED <<xgbPredictor, predictorVars, loadVars, clientVars, evalVars, typeVars, featureVars, resultVars, extVars>>

\* lines 424-429: after the floorplan / OCR awaits,
\*   if (!xgbPredictor) { xgbPredictor = new XGBoostPredictor(); await xgbPredictor.load(...) }
AnalyzeLoadModel ==
    /\ initPc = "floorplan"
    /\ IF ~xgbPredictor
       THEN /\ xgbPredictor' = TRUE
            /\ LoadCallBody(PageSlot)
            /\ runLoadCalled' = TRUE
            /\ initPc' = "awaitLoad"
       ELSE /\ initPc' = "predict"
            /\ UNCHANGED <<xgbPredictor, runLoadCalled, predictorVars, loadVars>>
    /\ UNCHANGED <<isRunning, sidebar, runs, clientVars, evalVars, typeVars, featureVars, resultVars, extVars>>

\* the steps of the load the page awaits
PageLoadStep ==
    /\ \/ LoadFetchesSettle(PageSlot)
       \/ LoadModelJson(PageSlot)
       \/ LoadFeaturesJson(PageSlot)
    /\ UNCHANGED <<clientVars, pageVars, evalVars, typeVars, featureVars, resultVars, extVars>>

\* `await xgbPredictor.load(...)` resumes: on a rejection analyzeProperty throws
\* into init's catch (lines 327-335), which shows the generic error
AnalyzeLoadSettled ==
    /\ initPc = "awaitLoad"
    /\ \/ /\ loadPc[PageSlot] \in {"done", "noop"}
          /\ initPc' = "predict"
          /\ UNCHANGED <<isRunning, sidebar>>
       \/ /\ loadPc[PageSlot] = "threw"
          /\ initPc' = "idle"
          /\ sidebar' = "error: Something went wrong"
          /\ isRunning' = FALSE
    /\ UNCHANGED <<xgbPredictor, runs, runLoadCalled, predictorVars, loadVars,
                   clientVars, evalVars, typeVars, featureVars, resultVars, extVars>>

\* lines 431-474 and 298-335: buildFeatures, predict, displayResult, or the catch
AnalyzePredict ==
    /\ initPc = "predict"
    /\ initPc' = "idle"
    /\ isRunning' = FALSE
    /\ sidebar' = IF predict(model, features, loaded, PageDict).kind = "returned"
                  THEN "result"
                  ELSE "error: Something went wrong"
    /\ UNCHANGED <<xgbPredictor, runs, runLoadCalled, predictorVars, loadVars,
                   clientVars, evalVars, typeVars, featureVars, resultVars, extVars>>

InitPage ==
    /\ PredictorFresh /\ LoadIdle /\ loadOK = FALSE
    /\ ClientIdle /\ PageIdle /\ EvalIdle /\ TypeIdle /\ FeaturesIdle /\ ResultIdle /\ ExtIdle

NextPage ==
    \/ InitStart
    \/ AnalyzeLoadModel
    \/ PageLoadStep
    \/ AnalyzeLoadSettled
    \/ AnalyzePredict

SpecPage == InitPage /\ [][NextPage]_vars

\* C5: after a load failed in one init run, the next init run attempts load again
\* before predicting: a run that is about to predict while no load has completed
\* successfully has called load itself.
FailedLoadIsRetried ==
    (initPc = "predict" /\ ~loadOK) => runLoadCalled

-----------------------------------------------------------------------------
(* XGBFeatures.getPropertyTypeOneHot (content.js 2566-2626) *)

\* words put together for one argument
MaxWords == 2

UpperChars == <<"A", "B", "C", "D", "E", "F", "G", "H", "I", "J", "K", "L", "M",
                "N", "O", "P", "Q", "R", "S", "T", "U", "V", "W", "X", "Y", "Z">>
LowerChars == <<"a", "b", "c", "d", "e", "f", "g", "h", "i", "j", "k", "l", "m",
                "n", "o", "p", "q", "r", "s", "t", "u", "v", "w", "x", "y", "z">>

ToLowerChar(c) ==
    IF \E i \in 1..26 : UpperChars[i] = c
    THEN LowerChars[CHOOSE i \in 1..26 : UpperChars[i] = c]
    ELSE c

\* String.prototype.toLowerCase
ToLowerCase(str) == [i \in 1..Len(str) |-> ToLowerChar(str[i])]

RECURSIVE DropTrailingSpaces(_)
DropTrailingSpaces(str) ==
    IF str # <<>> /\ str[Len(str)] = " "
    THEN DropTrailingSpaces(SubSeq(str, 1, Len(str) - 1))
    ELSE str

\* String.prototype.trim
Trim(str) == DropTrailingSpaces(SkipSpaces(str))

\* String.prototype.includes
Includes(str, sub) ==
    \E i \in 0..(Len(str) - Len(sub)) : SubSeq(str, i + 1, i + Len(sub)) = sub

\* PROPERTY_TYPE_FEATURES (lines 2117-2123)
PROPERTY_TYPE_FEATURES ==
    {"type_apartment",
     "type_detached",
     "type_duplex",
     "type_end of terrace",
     "type_flat",
     "type_ground flat",
     "type_house",
     "type_house boat",
     "type_house of multiple occupation",
     "type_house share",
     "type_link detached house",
     "type_long let",
     "type_maisonette",
     "type_mews",
     "type_not specified",
     "type_parking",
     "type_penthouse",
     "type_semi-detached",
     "type_studio",
     "type_terraced",
     "type_town house"}

\* const typeMapping (lines 2578-2606), in the order Object.entries walks it
typeMapping ==
    <<
      [keyword |-> <<"h", "o", "u", "s", "e", " ", "o", "f", " ", "m", "u", "l", "t", "i", "p", "l", "e", " ", "o", "c", "c", "u", "p", "a", "t", "i", "o", "n">>,
       featureName |-> "type_house of multiple occupation"],
      [keyword |-> <<"l", "i", "n", "k", " ", "d", "e", "t", "a", "c", "h", "e", "d", " ", "h", "o", "u", "s", "e">>,
       featureName |-> "type_link detached house"],
      [keyword |-> <<"l", "i", "n", "k", " ", "d", "e", "t", "a", "c", "h", "e", "d">>,
       featureName |-> "type_link detached house"],
      [keyword |-> <<"g", "r", "o", "u", "n", "d", " ", "f", "l", "o", "o", "r", " ", "f", "l", "a", "t">>,
       featureName |-> "type_ground flat"],
      [keyword |-> <<"g", "r", "o", "u", "n", "d", " ", "f", "l", "a", "t">>,
       featureName |-> "type_ground flat"],
      [keyword |-> <<"e", "n", "d", " ", "o", "f", " ", "t", "e", "r", "r", "a", "c", "e">>,
       featureName |-> "type_end of terrace"],
      [keyword |-> <<"s", "e", "m", "i", "-", "d", "e", "t", "a", "c", "h", "e", "d">>,
       featureName |-> "type_semi-detached"],
      [keyword |-> <<"h", "o", "u", "s", "e", " ", "s", "h", "a", "r", "e">>,
       featureName |-> "type_house share"],
      [keyword |-> <<"h", "o", "u", "s", "e", " ", "b", "o", "a", "t">>,
       featureName |-> "type_house boat"],
      [keyword |-> <<"h", "o", "u", "s", "e", "b", "o", "a", "t">>,
       featureName |-> "type_house boat"],
      [keyword |-> <<"t", "o", "w", "n", " ", "h", "o", "u", "s", "e">>,
       featureName |-> "type_town house"],
      [keyword |-> <<"t", "o", "w", "n", "h", "o", "u", "s", "e">>,
       featureName |-> "type_town house"],
      [keyword |-> <<"l", "o", "n", "g", " ", "l", "e", "t">>,
       featureName |-> "type_long let"],
      [keyword |-> <<"p", "e", "n", "t", "h", "o", "u", "s", "e">>,
       featureName |-> "type_penthouse"],
      [keyword |-> <<"m", "a", "i", "s", "o", "n", "e", "t", "t", "e">>,
       featureName |-> "type_maisonette"],
      [keyword |-> <<"t", "e", "r", "r", "a", "c", "e", "d">>,
       featureName |-> "type_terraced"],
      [keyword |-> <<"d", "e", "t", "a", "c", "h", "e", "d">>,
       featureName |-> "type_detached"],
      [keyword |-> <<"a", "p", "a", "r", "t", "m", "e", "n", "t">>,
       featureName |-> "type_apartment"],
      [keyword |-> <<"s", "t", "u", "d", "i", "o">>,
       featureName |-> "type_studio"],
      [keyword |-> <<"d", "u", "p", "l", "e", "x">>,
       featureName |-> "type_duplex"],
      [keyword |-> <<"p", "a", "r", "k", "i", "n", "g">>,
       featureName |-> "type_parking"],
      [keyword |-> <<"m", "e", "w", "s">>,
       featureName |-> "type_mews"],
      [keyword |-> <<"f", "l", "a", "t">>,
       featureName |-> "type_flat"],
      [keyword |-> <<"h", "o", "u", "s", "e">>,
       featureName |-> "type_house"]
    >>

\* the argument: null / undefined, or a string
NullString == [isNull |-> TRUE, chars |-> <<>>]
Str(chars) == [isNull |-> FALSE, chars |-> chars]

\* (propertyType || '').toLowerCase().trim()
NormalizedType(arg) == Trim(ToLowerCase(IF arg.isNull THEN <<>> ELSE arg.chars))

\* the for-of loop of lines 2610-2618 from entry i on: the index of the entry it
\* breaks at, 0 when it runs to the end
RECURSIVE FirstMatch(_, _)
FirstMatch(normalizedType, i) ==
    IF i > Len(typeMapping) THEN 0
    ELSE IF /\ Includes(normalizedType, typeMapping[i].keyword)
            /\ typeMapping[i].featureName \in PROPERTY_TYPE_FEATURES
    THEN i
    ELSE FirstMatch(normalizedType, i + 1)

\* getPropertyTypeOneHot with the `break` left out: every matching entry sets its flag
getPropertyTypeOneHotNoBreak(arg) ==
    LET normalizedType == NormalizedType(arg)
        hits == {typeMapping[i].featureName : i \in
                    {j \in 1..Len(typeMapping) :
                        Includes(normalizedType, typeMapping[j].keyword)}}
    IN  [f \in PROPERTY_TYPE_FEATURES |->
            IF f \in hits \/ (hits = {} /\ f = "type_flat") THEN 1 ELSE 0]

getPropertyTypeOneHot(arg) ==
    LET normalizedType == NormalizedType(arg)
        hit            == FirstMatch(normalizedType, 1)
        matched        == hit # 0
    IN  [f \in PROPERTY_TYPE_FEATURES |->
            IF matched
            THEN (IF f = typeMapping[hit].featureName THEN 1 ELSE 0)
            ELSE (IF f = "type_flat" THEN 1 ELSE 0)]

\* words the enumerated arguments are put together from
TypeWords ==
    {<<"e", "n", "d", " ", "o", "f", " ", "t", "e", "r", "r", "a", "c", "e">>,
     <<"h", "o", "u", "s", "e">>,
     <<"p", "e", "n", "t", "h", "o", "u", "s", "e">>,
     <<"t", "e", "r", "r", "a", "c", "e", "d">>,
     <<"s", "e", "m", "i", "-", "d", "e", "t", "a", "c", "h", "e", "d">>,
     <<"d", "e", "t", "a", "c", "h", "e", "d">>,
     <<"f", "l", "a", "t">>,
     <<"t", "o", "w", "n">>,
     <<"b", "o", "a", "t">>,
     <<"g", "r", "o", "u", "n", "d">>,
     <<"f", "l", "o", "o", "r">>,
     <<"H", "o", "u", "s", "e">>,
     <<"b", "u", "n", "g", "a", "l", "o", "w">>,
     <<"l", "i", "n", "k">>,
     <<"s", "h", "a", "r", "e">>,
     <<"S", "T", "U", "D", "I", "O">>}

RECURSIVE Phrases(_)
Phrases(n) ==
    IF n = 1 THEN TypeWords
    ELSE LET shorter == Phrases(n - 1)
         IN  shorter \cup {p \o sep \o w : p \in shorter, sep \in {<<>>, <<" ">>}, w \in TypeWords}

TypeInputs == {NullString, Str(<<>>)} \cup {Str(p) : p \in Phrases(MaxWords)}

CallGetPropertyTypeOneHot ==
    /\ typeResult = NoResult
    /\ typeResult' = getPropertyTypeOneHot(propertyType)
    /\ UNCHANGED <<propertyType, predictorVars, loadVars, clientVars, pageVars, evalVars,
                 featureVars, resultVars, extVars>>

InitPropertyType ==
    /\ propertyType \in TypeInputs
    /\ typeResult = NoResult
    /\ PredictorFresh /\ LoadIdle /\ loadOK = FALSE
    /\ ClientIdle /\ PageIdle /\ EvalIdle /\ FeaturesIdle /\ ResultIdle /\ ExtIdle

NextPropertyType == CallGetPropertyTypeOneHot

SpecPropertyType == InitPropertyType /\ [][NextPropertyType]_vars

\* keyword i of the fixed order occurs in the lower-cased argument
KeywordOccurs(i) ==
    Includes(ToLowerCase(IF propertyType.isNull THEN <<>> ELSE propertyType.chars),
             typeMapping[i].keyword)

EndOfTerraceHouse ==
    Str(<<"e", "n", "d", " ", "o", "f", " ", "t", "e", "r", "r", "a", "c", "e", " ",
          "h", "o", "u", "s", "e">>)

\* C10: getPropertyTypeOneHot sets exactly one flag: that of the first keyword,
\* in the fixed order, that occurs in the lower-cased type, or type_flat when none
\* occurs; 'end of terrace house' sets only the end-of-terrace flag, and a type
\* containing 'penthouse' never sets type_house.
PropertyTypeOneHotFirstKeyword ==
    typeResult # NoResult =>
        /\ Cardinality({f \in DOMAIN typeResult : typeResult[f] = 1}) = 1
        /\ \A f \in DOMAIN typeResult : typeResult[f] \in {0, 1}
        /\ \/ \E i \in 1..Len(typeMapping) :
                 /\ KeywordOccurs(i)
                 /\ \A j \in 1..(i - 1) : ~KeywordOccurs(j)
                 /\ typeResult[typeMapping[i].featureName] = 1
           \/ /\ \A i \in 1..Len(typeMapping) : ~KeywordOccurs(i)
              /\ typeResult["type_flat"] = 1
        /\ propertyType = EndOfTerraceHouse =>
              /\ typeResult["type_end of terrace"] = 1
              /\ typeResult["type_house"] = 0
              /\ typeResult["type_terraced"] = 0
        /\ (~propertyType.isNull
            /\ Includes(ToLowerCase(propertyType.chars),
                        <<"p", "e", "n", "t", "h", "o", "u", "s", "e">>)) =>
              typeResult["type_house"] = 0

\* C10 witness: the call has returned for 'end of terrace house'
PropertyTypeOneHotFirstKeywordWitness ==
    typeResult # NoResult /\ propertyType = EndOfTerraceHouse

-----------------------------------------------------------------------------
(* XGBFeatures.extractPostcodeDistrict / getPostcodeOneHot (content.js 2545-2563) *)

\* longest postcode string enumerated
MaxPostcodeLen == 4

ToUpperChar(c) ==
    IF \E i \in 1..26 : LowerChars[i] = c
    THEN UpperChars[CHOOSE i \in 1..26 : LowerChars[i] = c]
    ELSE c

\* String.prototype.toUpperCase
ToUpperCase(str) == [i \in 1..Len(str) |-> ToUpperChar(str[i])]

IsUpperLetter(c) == \E i \in 1..26 : UpperChars[i] = c

\* String.prototype.indexOf, 1-based; 0 when sub does not occur
IndexOf(str, sub) ==
    IF Includes(str, sub)
    THEN CHOOSE i \in 1..(Len(str) - Len(sub) + 1) :
            /\ SubSeq(str, i, i + Len(sub) - 1) = sub
            /\ \A j \in 1..(i - 1) : SubSeq(str, j, j + Len(sub) - 1) # sub
    ELSE 0

\* String.prototype.replace with a string pattern: the first occurrence only
ReplaceFirst(str, sub, with) ==
    LET i == IndexOf(str, sub)
    IN  IF i = 0 THEN str
        ELSE SubSeq(str, 1, i - 1) \o with \o SubSeq(str, i + Len(sub), Len(str))

\* str.split(' ')[0]
SplitSpaceFirst(str) ==
    LET i == IndexOf(str, <<" ">>)
    IN  IF i = 0 THEN str ELSE SubSeq(str, 1, i - 1)

\* /^([A-Z]{1,2}\d{1,2}[A-Z]?)$/ matches outcode
OutcodePatternMatches(outcode) ==
    \E a \in 1..2, d \in 1..2, o \in 0..1 :
        /\ Len(outcode) = a + d + o
        /\ \A i \in 1..a : IsUpperLetter(outcode[i])
        /\ \A i \in (a + 1)..(a + d) : IsDigit(outcode[i])
        /\ \A i \in (a + d + 1)..(a + d + o) : IsUpperLetter(outcode[i])

\* extractPostcodeDistrict (lines 2545-2553); match[1] is the whole outcode, the
\* group spanning the anchored pattern
extractPostcodeDistrict(arg) ==
    IF arg.isNull \/ arg.chars = <<>> THEN <<"S", "W", "3">>
    ELSE LET outcode == ToUpperCase(SplitSpaceFirst(arg.chars))
             match   == OutcodePatternMatches(outcode)
         IN  IF match THEN outcode ELSE outcode

\* POSTCODE_FEATURES (lines 2113-2114): each name, and the same name spelled out
POSTCODE_FEATURES ==
    << [name |-> "pc_SW3",  chars |-> <<"p", "c", "_", "S", "W", "3">>],
       [name |-> "pc_SW7",  chars |-> <<"p", "c", "_", "S", "W", "7">>],
       [name |-> "pc_W8",   chars |-> <<"p", "c", "_", "W", "8">>],
       [name |-> "pc_W2",   chars |-> <<"p", "c", "_", "W", "2">>],
       [name |-> "pc_SW5",  chars |-> <<"p", "c", "_", "S", "W", "5">>],
       [name |-> "pc_SW11", chars |-> <<"p", "c", "_", "S", "W", "1", "1">>],
       [name |-> "pc_SW10", chars |-> <<"p", "c", "_", "S", "W", "1", "0">>],
       [name |-> "pc_NW8",  chars |-> <<"p", "c", "_", "N", "W", "8">>],
       [name |-> "pc_W11",  chars |-> <<"p", "c", "_", "W", "1", "1">>],
       [name |-> "pc_SW1X", chars |-> <<"p", "c", "_", "S", "W", "1", "X">>],
       [name |-> "pc_NW3",  chars |-> <<"p", "c", "_", "N", "W", "3">>],
       [name |-> "pc_SW1W", chars |-> <<"p", "c", "_", "S", "W", "1", "W">>],
       [name |-> "pc_W14",  chars |-> <<"p", "c", "_", "W", "1", "4">>],
       [name |-> "pc_NW1",  chars |-> <<"p", "c", "_", "N", "W", "1">>],
       [name |-> "pc_W10",  chars |-> <<"p", "c", "_", "W", "1", "0">>] >>

\* String.prototype.startsWith
StartsWith(str, prefix) ==
    Len(prefix) <= Len(str) /\ SubSeq(str, 1, Len(prefix)) = prefix

\* getPostcodeOneHot comparing with startsWith instead of ===
getPostcodeOneHotStartsWith(postcodeDistrict) ==
    [pc \in {POSTCODE_FEATURES[i].name : i \in 1..Len(POSTCODE_FEATURES)} |->
        LET entry    == CHOOSE e \in {POSTCODE_FEATURES[i] : i \in 1..Len(POSTCODE_FEATURES)} :
                            e.name = pc
            district == ReplaceFirst(entry.chars, <<"p", "c", "_">>, <<>>)
        IN  IF StartsWith(postcodeDistrict, district) THEN 1 ELSE 0]

\* getPostcodeOneHot (lines 2556-2563)
getPostcodeOneHot(postcodeDistrict) ==
    [pc \in {POSTCODE_FEATURES[i].name : i \in 1..Len(POSTCODE_FEATURES)} |->
        LET entry    == CHOOSE e \in {POSTCODE_FEATURES[i] : i \in 1..Len(POSTCODE_FEATURES)} :
                            e.name = pc
            district == ReplaceFirst(entry.chars, <<"p", "c", "_">>, <<>>)
        IN  IF postcodeDistrict = district THEN 1 ELSE 0]

\* characters the enumerated postcodes are written with
PostcodeChars == {"S", "W", "3", "1", "X", "s", "w", " "}

RECURSIVE StringsUpTo(_, _)
StringsUpTo(chars, n) ==
    IF n = 0 THEN {<<>>}
    ELSE LET shorter == StringsUpTo(chars, n - 1)
         IN  shorter \cup {Append(str, c) : str \in shorter, c \in chars}

PostcodeInputs == {NullString} \cup {Str(str) : str \in StringsUpTo(PostcodeChars, MaxPostcodeLen)}

\* buildFeatures lines 2633 and 2660: the district of the postcode, then its one-hot
CallGetPostcodeOneHot ==
    /\ postcodeOneHot = NoResult
    /\ postcodeOneHot' = getPostcodeOneHot(extractPostcodeDistrict(postcode))
    /\ UNCHANGED <<postcode, floorVars, furnishedVars, buildVars, resultVars, extVars,
                   predictorVars, loadVars, clientVars, pageVars, evalVars, typeVars>>

InitPostcode ==
    /\ postcode \in PostcodeInputs
    /\ postcodeOneHot = NoResult
    /\ FloorsIdle /\ FurnishedIdle /\ BuildIdle /\ ResultIdle /\ ExtIdle
    /\ PredictorFresh /\ LoadIdle /\ loadOK = FALSE
    /\ ClientIdle /\ PageIdle /\ EvalIdle /\ TypeIdle

NextPostcode == CallGetPostcodeOneHot

SpecPostcode == InitPostcode /\ [][NextPostcode]_vars

\* the part of the postcode before its first space, in upper case ('SW3' for an
\* absent or empty postcode)
NormalisedDistrict ==
    IF postcode.isNull \/ postcode.chars = <<>> THEN <<"S", "W", "3">>
    ELSE LET before == IF \E i \in 1..Len(postcode.chars) : postcode.chars[i] = " "
                       THEN (CHOOSE i \in 1..Len(postcode.chars) :
                                /\ postcode.chars[i] = " "
                                /\ \A j \in 1..(i - 1) : postcode.chars[j] # " ") - 1
                       ELSE Len(postcode.chars)
         IN  [i \in 1..before |-> ToUpperChar(postcode.chars[i])]

\* the district a listed pc_* name stands for: the name without its 3-character prefix
ListedDistrict(i) == SubSeq(POSTCODE_FEATURES[i].chars, 4, Len(POSTCODE_FEATURES[i].chars))

\* C11: after extractPostcodeDistrict, getPostcodeOneHot sets at most one pc_* flag:
\* the flag of a listed name is 1 exactly when the normalised district equals that
\* name's district exactly, so a district outside the list, also a longer one that
\* starts with a listed one, sets no flag.
PostcodeOneHotAtMostOne ==
    postcodeOneHot # NoResult =>
        /\ Cardinality({pc \in DOMAIN postcodeOneHot : postcodeOneHot[pc] = 1}) <= 1
        /\ \A pc \in DOMAIN postcodeOneHot : postcodeOneHot[pc] \in {0, 1}
        /\ \A i \in 1..Len(POSTCODE_FEATURES) :
              postcodeOneHot[POSTCODE_FEATURES[i].name] = 1
                  <=> NormalisedDistrict = ListedDistrict(i)

\* C11 witness: the one-hot was computed for 'SW31', which starts with the listed SW3
PostcodeOneHotAtMostOneWitness ==
    /\ postcodeOneHot # NoResult
    /\ postcode = Str(<<"S", "W", "3", "1">>)
    /\ \A pc \in DOMAIN postcodeOneHot : postcodeOneHot[pc] = 0

-----------------------------------------------------------------------------
(* Regular expressions of XGBFeatures, matched the way RegExp.prototype.test does *)

\* elements of a pattern: a literal run, \s*, \s+, \b, and an optional literal
\* group such as (?:floor)?
Lit(chars) == [k |-> "lit", s |-> chars]
Opt(chars) == [k |-> "opt", s |-> chars]
WsStar     == [k |-> "ws*", s |-> <<>>]
WsPlus     == [k |-> "ws+", s |-> <<>>]
Wb         == [k |-> "wb",  s |-> <<>>]

\* \s
IsSpaceChar(c) == c \in {" ", "\n", "\t", "\r"}

\* \w
IsWordChar(c) ==
    \/ \E i \in 1..26 : UpperChars[i] = c \/ LowerChars[i] = c
    \/ IsDigit(c)
    \/ c = "_"

\* \b between text[ti - 1] and text[ti]
AtWordBoundary(text, ti) ==
    LET before == ti > 1 /\ ti - 1 <= Len(text) /\ IsWordChar(text[ti - 1])
        after  == ti >= 1 /\ ti <= Len(text) /\ IsWordChar(text[ti])
    IN  before # after

\* the positions right after a match of pattern elements pi.. that starts at ti
RECURSIVE MatchEnds(_, _, _, _)
MatchEnds(text, pattern, pi, ti) ==
    IF pi > Len(pattern) THEN {ti}
    ELSE LET e == pattern[pi]
             n == Len(e.s)
             litHere == ti + n - 1 <= Len(text) /\ SubSeq(text, ti, ti + n - 1) = e.s
             \* the runs of white space starting at ti, by their length
             spaces == {m \in 0..(Len(text) - ti + 1) :
                         \A j \in ti..(ti + m - 1) : IsSpaceChar(text[j])}
         IN  CASE e.k = "lit" ->
                    IF litHere THEN MatchEnds(text, pattern, pi + 1, ti + n) ELSE {}
               [] e.k = "opt" ->
                    (IF litHere THEN MatchEnds(text, pattern, pi + 1, ti + n) ELSE {})
                        \cup MatchEnds(text, pattern, pi + 1, ti)
               [] e.k = "ws*" ->
                    UNION {MatchEnds(text, pattern, pi + 1, ti + m) : m \in spaces}
               [] e.k = "ws+" ->
                    UNION {MatchEnds(text, pattern, pi + 1, ti + m) : m \in spaces \ {0}}
               [] e.k = "wb" ->
                    IF AtWordBoundary(text, ti)
                    THEN MatchEnds(text, pattern, pi + 1, ti) ELSE {}

\* pattern.test(text) for a pattern without the i flag, or on lower-cased text
RegexTest(text, pattern) ==
    \E ti \in 1..(Len(text) + 1) : MatchEnds(text, pattern, 1, ti) # {}

\* pattern.test(text) for a pattern with the i flag (the pattern written in lower case)
RegexTestI(text, pattern) == RegexTest(ToLowerCase(text), pattern)

SetMax(S) == CHOOSE x \in S : \A y \in S : y <= x

\* text.replace(/pattern/gi, with) from position i on: leftmost matches, each as
\* long as the pattern allows, replaced left to right
RECURSIVE ReplaceAllFrom(_, _, _, _)
ReplaceAllFrom(text, pattern, with, i) ==
    IF i > Len(text) THEN <<>>
    ELSE LET ends == MatchEnds(ToLowerCase(text), pattern, 1, i) \ {i}
         IN  IF ends # {}
             THEN with \o ReplaceAllFrom(text, pattern, with, SetMax(ends))
             ELSE <<text[i]>> \o ReplaceAllFrom(text, pattern, with, i + 1)

ReplaceAllI(text, pattern, with) == ReplaceAllFrom(text, pattern, with, 1)

\* text.split(sep) for a one-character separator
RECURSIVE SplitOn(_, _)
SplitOn(text, sep) ==
    LET i == IndexOf(text, <<sep>>)
    IN  IF i = 0 THEN <<text>>
        ELSE <<SubSeq(text, 1, i - 1)>> \o SplitOn(SubSeq(text, i + 1, Len(text)), sep)

\* lines.join(sep)
RECURSIVE JoinWith(_, _)
JoinWith(lines, sep) ==
    IF lines = <<>> THEN <<>>
    ELSE IF Len(lines) = 1 THEN lines[1]
    ELSE lines[1] \o <<sep>> \o JoinWith(Tail(lines), sep)

-----------------------------------------------------------------------------
(* XGBFeatures.extractFloors (content.js 2163-2282) *)

\* lines put together for one transcript
MaxLines == 2

\* FLOOR_PATTERNS (lines 2163-2180), in the order Object.entries walks it
FLOOR_PATTERNS ==
    <<
      [canonical |-> "basement",
       patterns  |-> <<<<Lit(<<"b", "a", "s", "e", "m", "e", "n", "t">>)>>,
                      <<Lit(<<"c", "e", "l", "l", "a", "r">>)>>>>],
      [canonical |-> "lower_ground",
       patterns  |-> <<<<Lit(<<"l", "o", "w", "e", "r">>), WsStar, Lit(<<"g", "r", "o", "u", "n", "d">>), WsStar, Opt(<<"f", "l", "o", "o", "r">>)>>,
                      <<Lit(<<"l", "g", "f">>), Wb>>,
                      <<Lit(<<"l", "o", "w", "e", "r">>), WsStar, Lit(<<"l", "e", "v", "e", "l">>)>>>>],
      [canonical |-> "ground",
       patterns  |-> <<<<Lit(<<"g", "r", "o", "u", "n", "d">>), WsStar, Opt(<<"f", "l", "o", "o", "r">>)>>,
                      <<Wb, Lit(<<"g", "f">>), Wb>>,
                      <<Lit(<<"s", "t", "r", "e", "e", "t">>), WsStar, Lit(<<"l", "e", "v", "e", "l">>)>>,
                      <<Lit(<<"r", "a", "i", "s", "e", "d">>), WsStar, Lit(<<"g", "r", "o", "u", "n", "d">>), WsStar, Opt(<<"f", "l", "o", "o", "r">>)>>>>],
      [canonical |-> "mezzanine",
       patterns  |-> <<<<Lit(<<"m", "e", "z", "z", "a", "n", "i", "n", "e">>)>>,
                      <<Lit(<<"m", "e", "z", "z">>), Wb>>>>],
      [canonical |-> "first",
       patterns  |-> <<<<Lit(<<"f", "i", "r", "s", "t">>), WsStar, Opt(<<"f", "l", "o", "o", "r">>)>>,
                      <<Lit(<<"1", "s", "t">>), WsStar, Opt(<<"f", "l", "o", "o", "r">>)>>>>],
      [canonical |-> "second",
       patterns  |-> <<<<Lit(<<"s", "e", "c", "o", "n", "d">>), WsStar, Opt(<<"f", "l", "o", "o", "r">>)>>,
                      <<Lit(<<"2", "n", "d">>), WsStar, Opt(<<"f", "l", "o", "o", "r">>)>>>>],
      [canonical |-> "third",
       patterns  |-> <<<<Lit(<<"t", "h", "i", "r", "d">>), WsStar, Opt(<<"f", "l", "o", "o", "r">>)>>,
                      <<Lit(<<"3", "r", "d">>), WsStar, Opt(<<"f", "l", "o", "o", "r">>)>>>>],
      [canonical |-> "fourth",
       patterns  |-> <<<<Lit(<<"f", "o", "u", "r", "t", "h">>), WsStar, Opt(<<"f", "l", "o", "o", "r">>)>>,
                      <<Lit(<<"4", "t", "h">>), WsStar, Opt(<<"f", "l", "o", "o", "r">>)>>>>],
      [canonical |-> "fifth",
       patterns  |-> <<<<Lit(<<"f", "i", "f", "t", "h">>), WsStar, Opt(<<"f", "l", "o", "o", "r">>)>>,
                      <<Lit(<<"5", "t", "h">>), WsStar, Opt(<<"f", "l", "o", "o", "r">>)>>>>],
      [canonical |-> "sixth",
       patterns  |-> <<<<Lit(<<"s", "i", "x", "t", "h">>), WsStar, Opt(<<"f", "l", "o", "o", "r">>)>>,
                      <<Lit(<<"6", "t", "h">>), WsStar, Opt(<<"f", "l", "o", "o", "r">>)>>>>],
      [canonical |-> "seventh",
       patterns  |-> <<<<Lit(<<"s", "e", "v", "e", "n", "t", "h">>), WsStar, Opt(<<"f", "l", "o", "o", "r">>)>>,
                      <<Lit(<<"7", "t", "h">>), WsStar, Opt(<<"f", "l", "o", "o", "r">>)>>>>],
      [canonical |-> "eighth",
       patterns  |-> <<<<Lit(<<"e", "i", "g", "h", "t", "h">>), WsStar, Opt(<<"f", "l", "o", "o", "r">>)>>,
                      <<Lit(<<"8", "t", "h">>), WsStar, Opt(<<"f", "l", "o", "o", "r">>)>>>>],
      [canonical |-> "ninth",
       patterns  |-> <<<<Lit(<<"n", "i", "n", "t", "h">>), WsStar, Opt(<<"f", "l", "o", "o", "r">>)>>,
                      <<Lit(<<"9", "t", "h">>), WsStar, Opt(<<"f", "l", "o", "o", "r">>)>>>>],
      [canonical |-> "tenth",
       patterns  |-> <<<<Lit(<<"t", "e", "n", "t", "h">>), WsStar, Opt(<<"f", "l", "o", "o", "r">>)>>,
                      <<Lit(<<"1", "0", "t", "h">>), WsStar, Opt(<<"f", "l", "o", "o", "r">>)>>>>],
      [canonical |-> "penthouse",
       patterns  |-> <<<<Lit(<<"p", "e", "n", "t", "h", "o", "u", "s", "e">>)>>>>],
      [canonical |-> "roof_terrace",
       patterns  |-> <<<<Lit(<<"r", "o", "o", "f">>), WsStar, Lit(<<"t", "e", "r", "r", "a", "c", "e">>)>>,
                      <<Lit(<<"r", "o", "o", "f", "t", "o", "p">>)>>>>]
    >>

\* normalizeOcrText (lines 2183-2191)
normalizeOcrText(text) ==
    IF text.isNull \/ text.chars = <<>> THEN <<>>
    ELSE LET r1 == ReplaceAllI(text.chars, <<Wb, Lit(<<"f", "l", "o", "c", "r">>), Wb>>, <<"f", "l", "o", "o", "r">>)
             r2 == ReplaceAllI(r1, <<Wb, Lit(<<"f", "i", "o", "o", "r">>), Wb>>, <<"f", "l", "o", "o", "r">>)
             r3 == ReplaceAllI(r2, <<Wb, Lit(<<"f", "l", "o", "o", "r">>), WsStar, Lit(<<"f", "l", "a", "n">>), Wb>>, <<"F", "l", "o", "o", "r", " ", "P", "l", "a", "n">>)
             r4 == ReplaceAllI(r3, <<Wb, Lit(<<"2", "n", "t", "h">>), Wb>>, <<"2", "n", "d">>)
             r5 == ReplaceAllI(r4, <<Wb, Lit(<<"1", "7", "t", "h">>), WsStar, Lit(<<"f", "l", "o", "c", "r">>), Wb>>, <<"1", "7", "t", "h", " ", "F", "l", "o", "o", "r">>)
         IN  r5

\* const exclusionPattern (line 2196), one pattern per alternative
exclusionPattern ==
    {<<Lit(<<"e", "x", "c", "l", "u", "d", "i", "n", "g">>)>>,
     <<Lit(<<"e", "x", "c", "l", "u", "d", "e">>)>>,
     <<Lit(<<"n", "o", "t">>), WsPlus, Lit(<<"i", "n", "c", "l", "u", "d", "e", "d">>)>>,
     <<Lit(<<"r", "e", "d", "u", "c", "e", "d">>), WsPlus, Lit(<<"h", "e", "a", "d", "r", "o", "o", "m">>)>>}

ExclusionTest(line) == \E alt \in exclusionPattern : RegexTestI(line, alt)

\* filterExclusionLines (lines 2194-2200), on a string
filterExclusionLines(text) ==
    IF text = <<>> THEN <<>>
    ELSE JoinWith(SelectSeq(SplitOn(text, "\n"), LAMBDA line : ~ExclusionTest(line)), "\n")

\* the object extractFloors starts from (lines 2204-2215)
NoFloors ==
    [has_basement |-> 0, has_ground |-> 0, has_first_floor |-> 0, has_second_floor |-> 0,
     has_third_floor |-> 0, has_fourth_plus |-> 0, has_roof_terrace |-> 0,
     floor_count |-> 0, is_multi_floor |-> 0, floors_detected |-> <<>>]

fourthPlusFloors ==
    {"fourth", "fifth", "sixth", "seventh", "eighth", "ninth", "tenth", "penthouse"}

mainFloors ==
    {"basement", "lower_ground", "ground", "mezzanine", "first", "second", "third",
     "fourth", "fifth", "sixth", "seventh", "eighth", "ninth", "tenth", "penthouse"}

\* the loop of lines 2228-2235: the canonical names one of whose patterns matches
canonicalFloorsOf(textLower) ==
    {FLOOR_PATTERNS[i].canonical : i \in
        {j \in 1..Len(FLOOR_PATTERNS) :
            \E k \in 1..Len(FLOOR_PATTERNS[j].patterns) :
                RegexTest(textLower, FLOOR_PATTERNS[j].patterns[k])}}

\* extractFloors (lines 2203-2282)
extractFloors(arg) ==
    IF arg.isNull \/ arg.chars = <<>> THEN NoFloors
    ELSE
    LET normalizedText  == normalizeOcrText(arg)
        filteredText    == filterExclusionLines(normalizedText)
        textLower       == ToLowerCase(filteredText)
        canonicalFloors == canonicalFloorsOf(textLower)
        below      == "basement" \in canonicalFloors \/ "lower_ground" \in canonicalFloors
        first      == "first" \in canonicalFloors \/ "mezzanine" \in canonicalFloors
        fourthPlus == fourthPlusFloors \cap canonicalFloors # {}
        floor_count == Cardinality(mainFloors \cap canonicalFloors)
    IN  [has_basement     |-> IF below THEN 1 ELSE 0,
         has_ground       |-> IF "ground" \in canonicalFloors THEN 1 ELSE 0,
         has_first_floor  |-> IF first THEN 1 ELSE 0,
         has_second_floor |-> IF "second" \in canonicalFloors THEN 1 ELSE 0,
         has_third_floor  |-> IF "third" \in canonicalFloors THEN 1 ELSE 0,
         has_fourth_plus  |-> IF fourthPlus THEN 1 ELSE 0,
         has_roof_terrace |-> IF "roof_terrace" \in canonicalFloors THEN 1 ELSE 0,
         floor_count      |-> floor_count,
         is_multi_floor   |-> IF floor_count >= 2 THEN 1 ELSE 0,
         floors_detected  |->
             (IF below
              THEN <<IF "basement" \in canonicalFloors THEN "basement" ELSE "lower_ground">>
              ELSE <<>>)
             \o (IF "ground" \in canonicalFloors THEN <<"ground">> ELSE <<>>)
             \o (IF first THEN <<"first">> ELSE <<>>)
             \o (IF "second" \in canonicalFloors THEN <<"second">> ELSE <<>>)
             \o (IF "third" \in canonicalFloors THEN <<"third">> ELSE <<>>)
             \o (IF fourthPlus THEN <<"fourth+">> ELSE <<>>)
             \o (IF "roof_terrace" \in canonicalFloors THEN <<"roof_terrace">> ELSE <<>>)]

\* lines the enumerated transcripts are put together from
FloorLines ==
    {<<"L", "o", "w", "e", "r", " ", "G", "r", "o", "u", "n", "d", " ", "F", "l", "o", "o", "r">>,
     <<"F", "i", "r", "s", "t", " ", "F", "l", "o", "o", "r">>,
     <<"E", "x", "c", "l", "u", "d", "i", "n", "g", " ", "b", "a", "s", "e", "m", "e", "n", "t">>,
     <<"E", "x", "c", "l", "u", "d", "i", "n", "g", " ", "F", "l", "o", "o", "r">>,
     <<"F", "l", "a", "n", " ", "S", "e", "c", "o", "n", "d", " ", "F", "l", "o", "o", "r">>,
     <<"G", "r", "o", "u", "n", "d", " ", "F", "l", "o", "o", "r">>,
     <<"B", "a", "s", "e", "m", "e", "n", "t">>,
     <<"R", "o", "o", "f", " ", "T", "e", "r", "r", "a", "c", "e">>,
     <<"n", "o", "t", " ", "i", "n", "c", "l", "u", "d", "e", "d", " ", "3", "r", "d", " ", "f", "i", "o", "o", "r">>,
     <<"P", "e", "n", "t", "h", "o", "u", "s", "e">>,
     <<"L", "G", "F">>,
     <<>>}

RECURSIVE Transcripts(_)
Transcripts(n) ==
    IF n = 1 THEN FloorLines
    ELSE LET shorter == Transcripts(n - 1)
         IN  shorter \cup {t \o <<"\n">> \o line : t \in shorter, line \in FloorLines}

FloorInputs == {NullString} \cup {Str(t) : t \in Transcripts(MaxLines)}

CallExtractFloors ==
    /\ floors = NoResult
    /\ floors' = extractFloors(ocrText)
    /\ UNCHANGED <<ocrText, postcodeVars, furnishedVars, buildVars, resultVars, extVars,
                   predictorVars, loadVars, clientVars, pageVars, evalVars, typeVars>>

InitFloors ==
    /\ ocrText \in FloorInputs
    /\ floors = NoResult
    /\ PostcodeIdle /\ FurnishedIdle /\ BuildIdle /\ ResultIdle /\ ExtIdle
    /\ PredictorFresh /\ LoadIdle /\ loadOK = FALSE
    /\ ClientIdle /\ PageIdle /\ EvalIdle /\ TypeIdle

NextFloors == CallExtractFloors

SpecFloors == InitFloors /\ [][NextFloors]_vars

LowerGroundThenFirst == Str(<<"L", "o", "w", "e", "r", " ", "G", "r", "o", "u", "n", "d", " ", "F", "l", "o", "o", "r", "\n", "F", "i", "r", "s", "t", " ", "F", "l", "o", "o", "r">>)

\* C12: extractFloors counts each floor named in the transcript once: the two lines
\* 'Lower Ground Floor' and 'First Floor' give has_basement = 1, has_first_floor = 1,
\* floor_count = 2 and is_multi_floor = 1, and the single line 'Lower Ground Floor'
\* counts as one floor.
FloorsCountedOnce ==
    /\ (floors # NoResult /\ ocrText = LowerGroundThenFirst) =>
          /\ floors.has_basement = 1
          /\ floors.has_first_floor = 1
          /\ floors.floor_count = 2
          /\ floors.is_multi_floor = 1
    /\ (floors # NoResult /\ ocrText = Str(<<"L", "o", "w", "e", "r", " ", "G", "r", "o", "u", "n", "d", " ", "F", "l", "o", "o", "r">>)) =>
          floors.floor_count = 1

\* the transcript without its lines that match the exclusion pattern
WithoutExclusionLines(arg) ==
    IF arg.isNull THEN arg
    ELSE Str(JoinWith(SelectSeq(SplitOn(arg.chars, "\n"), LAMBDA line : ~ExclusionTest(line)),
                      "\n"))

\* C13: a transcript line that matches the exclusion pattern never contributes a
\* floor match: extractFloors returns for every transcript what it returns for the
\* transcript with all such lines removed; 'Excluding basement' then 'First Floor'
\* gives has_basement = 0 and has_first_floor = 1.
ExclusionLinesNeverContribute ==
    floors # NoResult =>
        /\ floors = extractFloors(WithoutExclusionLines(ocrText))
        /\ ocrText = Str(<<"E", "x", "c", "l", "u", "d", "i", "n", "g", " ", "b", "a", "s", "e", "m", "e", "n", "t", "\n", "F", "i", "r", "s", "t", " ", "F", "l", "o", "o", "r">>) =>
              floors.has_basement = 0 /\ floors.has_first_floor = 1

-----------------------------------------------------------------------------
(* XGBFeatures.detectFurnishedStatus (content.js 2372-2389) *)

\* phrases put together for one description
MaxPhrases == 2

FurnishedResult(f, u, p) == [furnished |-> f, unfurnished |-> u, partFurnished |-> p]

\* detectFurnishedStatus testing 'furnished' before the more specific phrases
detectFurnishedStatusFurnishedFirst(arg) ==
    IF arg.isNull \/ arg.chars = <<>> THEN FurnishedResult(0, 0, 0)
    ELSE LET desc == ToLowerCase(arg.chars)
         IN  IF Includes(desc, <<"f", "u", "r", "n", "i", "s", "h", "e", "d">>)
             THEN FurnishedResult(1, 0, 0)
             ELSE IF Includes(desc, <<"u", "n", "f", "u", "r", "n", "i", "s", "h", "e", "d">>)
             THEN FurnishedResult(0, 1, 0)
             ELSE IF \/ Includes(desc, <<"p", "a", "r", "t", " ", "f", "u", "r", "n", "i", "s", "h", "e", "d">>)
                     \/ Includes(desc, <<"p", "a", "r", "t", "-", "f", "u", "r", "n", "i", "s", "h", "e", "d">>)
             THEN FurnishedResult(0, 0, 1)
             ELSE FurnishedResult(0, 0, 0)

\* detectFurnishedStatus (lines 2372-2389)
detectFurnishedStatus(arg) ==
    IF arg.isNull \/ arg.chars = <<>> THEN FurnishedResult(0, 0, 0)
    ELSE LET desc == ToLowerCase(arg.chars)
         IN  IF Includes(desc, <<"u", "n", "f", "u", "r", "n", "i", "s", "h", "e", "d">>)
             THEN FurnishedResult(0, 1, 0)
             ELSE IF \/ Includes(desc, <<"p", "a", "r", "t", " ", "f", "u", "r", "n", "i", "s", "h", "e", "d">>)
                     \/ Includes(desc, <<"p", "a", "r", "t", "-", "f", "u", "r", "n", "i", "s", "h", "e", "d">>)
             THEN FurnishedResult(0, 0, 1)
             ELSE IF Includes(desc, <<"f", "u", "r", "n", "i", "s", "h", "e", "d">>)
             THEN FurnishedResult(1, 0, 0)
             ELSE FurnishedResult(0, 0, 0)

\* phrases the enumerated descriptions are put together from
FurnishedPhrases ==
    {<<"u", "n", "f", "u", "r", "n", "i", "s", "h", "e", "d">>,
     <<"p", "a", "r", "t", " ", "f", "u", "r", "n", "i", "s", "h", "e", "d">>,
     <<"p", "a", "r", "t", "-", "f", "u", "r", "n", "i", "s", "h", "e", "d">>,
     <<"f", "u", "r", "n", "i", "s", "h", "e", "d">>,
     <<"F", "u", "r", "n", "i", "s", "h", "e", "d">>,
     <<"U", "N", "F", "U", "R", "N", "I", "S", "H", "E", "D">>,
     <<"P", "a", "r", "t", " ", "F", "u", "r", "n", "i", "s", "h", "e", "d">>,
     <<"f", "l", "a", "t">>,
     <<"p", "a", "r", "t">>,
     <<"o", "r">>,
     <<"f", "u", "r", "n", "i", "s", "h">>}

RECURSIVE Descriptions(_)
Descriptions(n) ==
    IF n = 1 THEN FurnishedPhrases
    ELSE LET shorter == Descriptions(n - 1)
         IN  shorter \cup {d \o sep \o w : d \in shorter, sep \in {<<" ">>, <<",", " ">>},
                                           w \in FurnishedPhrases}

FurnishedInputs == {NullString, Str(<<>>)} \cup {Str(d) : d \in Descriptions(MaxPhrases)}

CallDetectFurnishedStatus ==
    /\ furnishedStatus = NoResult
    /\ furnishedStatus' = detectFurnishedStatus(description)
    /\ UNCHANGED <<description, postcodeVars, floorVars, buildVars, resultVars, extVars,
                   predictorVars, loadVars, clientVars, pageVars, evalVars, typeVars>>

InitFurnished ==
    /\ description \in FurnishedInputs
    /\ furnishedStatus = NoResult
    /\ PostcodeIdle /\ FloorsIdle /\ BuildIdle /\ ResultIdle /\ ExtIdle
    /\ PredictorFresh /\ LoadIdle /\ loadOK = FALSE
    /\ ClientIdle /\ PageIdle /\ EvalIdle /\ TypeIdle

NextFurnished == CallDetectFurnishedStatus

SpecFurnished == InitFurnished /\ [][NextFurnished]_vars

\* the phrase occurs in the description, letter case aside
DescriptionMentions(phrase) ==
    ~description.isNull /\ Includes(ToLowerCase(description.chars), phrase)

\* C14: detectFurnishedStatus returns at most one of furnished / unfurnished /
\* partFurnished equal to 1, with precedence unfurnished, then part furnished or
\* part-furnished, then furnished, and all three 0 when none occurs or the
\* description is absent.
FurnishedStatusExclusive ==
    furnishedStatus # NoResult =>
        LET unf  == DescriptionMentions(<<"u", "n", "f", "u", "r", "n", "i", "s", "h", "e", "d">>)
            part == \/ DescriptionMentions(<<"p", "a", "r", "t", " ", "f", "u", "r", "n", "i", "s", "h", "e", "d">>)
                    \/ DescriptionMentions(<<"p", "a", "r", "t", "-", "f", "u", "r", "n", "i", "s", "h", "e", "d">>)
            furn == DescriptionMentions(<<"f", "u", "r", "n", "i", "s", "h", "e", "d">>)
        IN  /\ furnishedStatus.furnished \in {0, 1}
            /\ furnishedStatus.unfurnished \in {0, 1}
            /\ furnishedStatus.partFurnished \in {0, 1}
            /\ furnishedStatus.furnished + furnishedStatus.unfurnished
                   + furnishedStatus.partFurnished <= 1
            /\ furnishedStatus.unfurnished = 1 <=> unf
            /\ furnishedStatus.partFurnished = 1 <=> (~unf /\ part)
            /\ furnishedStatus.furnished = 1 <=> (~unf /\ ~part /\ furn)

\* C14 witness: a description that names both 'part furnished' and 'unfurnished'
\* was classified as unfurnished only
FurnishedStatusExclusiveWitness ==
    /\ furnishedStatus = FurnishedResult(0, 1, 0)
    /\ DescriptionMentions(<<"p", "a", "r", "t", " ", "f", "u", "r", "n", "i", "s", "h", "e", "d">>)
    /\ DescriptionMentions(<<"u", "n", "f", "u", "r", "n", "i", "s", "h", "e", "d">>)

-----------------------------------------------------------------------------
(* XGBFeatures.buildFeatures (content.js 2628-2870)                        *)
(* Numbers of the feature vector are exact fractions n / d; Math.log1p,    *)
(* Math.sqrt and haversine are tabulated, to three decimals, for the        *)
(* arguments the enumerated inputs produce.                                 *)

RECURSIVE GCD(_, _)
GCD(a, b) == IF b = 0 THEN a ELSE GCD(b, a % b)

Abs(x) == IF x < 0 THEN -x ELSE x

\* the number n / d, d # 0, in lowest terms with a positive denominator
Q(n, d) ==
    LET g == GCD(Abs(n), Abs(d))
        s == IF d < 0 THEN -1 ELSE 1
    IN  [t |-> "num", n |-> (s * n) \div g, d |-> (s * d) \div g]

N(i) == Q(i, 1)

QNaN       == [t |-> "nan", n |-> 0, d |-> 1]
QNull      == [t |-> "null", n |-> 0, d |-> 1]
QUndefined == [t |-> "undefined", n |-> 0, d |-> 1]
\* Infinity (n = 1) and -Infinity (n = -1)
QInfinity(sign) == [t |-> "inf", n |-> sign, d |-> 1]

\* Number.isFinite
IsFiniteNumber(x) == x.t = "num"

\* ToNumber: undefined is NaN, null is 0
ToNumber(x) ==
    CASE x.t = "undefined" -> QNaN
      [] x.t = "null"      -> N(0)
      [] OTHER             -> x

\* a || b on numbers: undefined, null, NaN and 0 are falsy
QTruthy(x) == x.t = "inf" \/ (x.t = "num" /\ x.n # 0)
QOr(a, b) == IF QTruthy(a) THEN a ELSE b

QSign(x) == IF x.n > 0 THEN 1 ELSE IF x.n < 0 THEN -1 ELSE 0

\* a + b
QAdd(a0, b0) ==
    LET a == ToNumber(a0)
        b == ToNumber(b0)
    IN  CASE a.t = "nan" \/ b.t = "nan" -> QNaN
          [] a.t = "inf" /\ b.t = "inf" -> IF a.n = b.n THEN a ELSE QNaN
          [] a.t = "inf" -> a
          [] b.t = "inf" -> b
          [] OTHER -> Q(a.n * b.d + b.n * a.d, a.d * b.d)

\* a * b
QMul(a0, b0) ==
    LET a == ToNumber(a0)
        b == ToNumber(b0)
    IN  CASE a.t = "nan" \/ b.t = "nan" -> QNaN
          [] a.t = "inf" \/ b.t = "inf" ->
                IF QSign(a) * QSign(b) = 0 THEN QNaN ELSE QInfinity(QSign(a) * QSign(b))
          [] OTHER -> Q(a.n * b.n, a.d * b.d)

QNeg(a) == QMul(N(-1), a)

\* a - b
QSub(a, b) == QAdd(a, QNeg(b))

\* a / b
QDiv(a0, b0) ==
    LET a == ToNumber(a0)
        b == ToNumber(b0)
    IN  CASE a.t = "nan" \/ b.t = "nan" -> QNaN
          [] a.t = "inf" /\ b.t = "inf" -> QNaN
          [] a.t = "inf" -> QInfinity(IF QSign(b) < 0 THEN -a.n ELSE a.n)
          [] b.t = "inf" -> N(0)
          [] b.n = 0 -> IF a.n = 0 THEN QNaN ELSE QInfinity(QSign(a))
          [] OTHER -> Q(a.n * b.d, a.d * b.n)

\* a < b; false when either side is NaN
QLess(a0, b0) ==
    LET a == ToNumber(a0)
        b == ToNumber(b0)
    IN  CASE a.t = "nan" \/ b.t = "nan" -> FALSE
          [] a.t = "inf" /\ b.t = "inf" -> a.n < b.n
          [] a.t = "inf" -> a.n < 0
          [] b.t = "inf" -> b.n > 0
          [] OTHER -> a.n * b.d < b.n * a.d

\* a >= b
QGeq(a0, b0) ==
    LET a == ToNumber(a0)
        b == ToNumber(b0)
    IN  a.t # "nan" /\ b.t # "nan" /\ ~QLess(a, b)

\* Math.max(a, b)
QMax(a0, b0) ==
    LET a == ToNumber(a0)
        b == ToNumber(b0)
    IN  IF a.t = "nan" \/ b.t = "nan" THEN QNaN
        ELSE IF QLess(a, b) THEN b ELSE a

\* Math.min over a non-empty set of numbers
QMinOf(S) == CHOOSE x \in S : \A y \in S : ~QLess(y, x)

\* ---- constants of XGBFeatures, as written in the source

\* PRIME_POSTCODES (line 2042)
PRIME_POSTCODES ==
    << <<"S", "W", "1">>,
       <<"S", "W", "3">>,
       <<"S", "W", "7">>,
       <<"S", "W", "1", "0">>,
       <<"W", "1">>,
       <<"W", "8">>,
       <<"W", "1", "1">>,
       <<"N", "W", "3">>,
       <<"N", "W", "8">> >>

\* CITY_CENTER (line 2043)
CITY_CENTER == [lat |-> Q(515074, 10000), lon |-> Q(-1278, 10000)]

\* SOCIAL_ESTATE_PATTERNS (lines 2047-2052), each with the i flag
SOCIAL_ESTATE_PATTERNS ==
    << <<Lit(<<"w", "o", "r", "l", "d">>), Opt(<<"'">>), Opt(<<"s">>), WsStar, Lit(<<"e", "n", "d">>), WsStar, Lit(<<"e", "s", "t", "a", "t", "e">>)>>,
       <<Lit(<<"t", "o", "w", "n", "s", "h", "e", "n", "d">>), WsStar, Lit(<<"e", "s", "t", "a", "t", "e">>)>>,
       <<Lit(<<"h", "a", "l", "l", "f", "i", "e", "l", "d">>), WsStar, Lit(<<"e", "s", "t", "a", "t", "e">>)>>,
       <<Lit(<<"c", "h", "u", "r", "c", "h", "i", "l", "l">>), WsStar, Lit(<<"g", "a", "r", "d", "e", "n", "s">>)>>,
       <<Lit(<<"e", "b", "u", "r", "y">>), WsStar, Lit(<<"b", "r", "i", "d", "g", "e">>)>>,
       <<Lit(<<"p", "e", "a", "b", "o", "d", "y">>)>>,
       <<Lit(<<"t", "r", "e", "l", "l", "i", "c", "k">>), WsStar, Lit(<<"t", "o", "w", "e", "r">>)>>,
       <<Lit(<<"l", "a", "n", "c", "a", "s", "t", "e", "r">>), WsStar, Lit(<<"w", "e", "s", "t">>)>>,
       <<Lit(<<"s", "i", "l", "c", "h", "e", "s", "t", "e", "r">>)>>,
       <<Lit(<<"l", "i", "s", "s", "o", "n">>), WsStar, Lit(<<"g", "r", "o", "v", "e">>)>>,
       <<Lit(<<"p", "e", "n", "f", "o", "l", "d">>), WsStar, Lit(<<"p", "l", "a", "c", "e">>)>>,
       <<Lit(<<"m", "a", "l", "l", "o", "r", "y">>), WsStar, Lit(<<"s", "t", "r", "e", "e", "t">>)>> >>

\* PREMIUM_POSTCODES_SOCIAL (line 2055)
PREMIUM_POSTCODES_SOCIAL ==
    << <<"S", "W", "1">>,
       <<"S", "W", "3">>,
       <<"S", "W", "7">>,
       <<"W", "1">>,
       <<"W", "8">>,
       <<"N", "W", "8">> >>

\* GARDEN_SQUARES (line 2061)
GARDEN_SQUARES ==
    << <<"c", "a", "d", "o", "g", "a", "n", " ", "s", "q", "u", "a", "r", "e">>,
       <<"b", "e", "l", "g", "r", "a", "v", "e", " ", "s", "q", "u", "a", "r", "e">>,
       <<"c", "h", "e", "s", "t", "e", "r", " ", "s", "q", "u", "a", "r", "e">>,
       <<"e", "a", "t", "o", "n", " ", "s", "q", "u", "a", "r", "e">>,
       <<"m", "o", "n", "t", "p", "e", "l", "i", "e", "r", " ", "s", "q", "u", "a", "r", "e">>,
       <<"b", "r", "o", "m", "p", "t", "o", "n", " ", "s", "q", "u", "a", "r", "e">>,
       <<"t", "h", "u", "r", "l", "o", "e", " ", "s", "q", "u", "a", "r", "e">>,
       <<"l", "o", "w", "n", "d", "e", "s", " ", "s", "q", "u", "a", "r", "e">>,
       <<"t", "r", "e", "v", "o", "r", " ", "s", "q", "u", "a", "r", "e">>,
       <<"l", "e", "n", "n", "o", "x", " ", "g", "a", "r", "d", "e", "n", "s">>,
       <<"c", "a", "d", "o", "g", "a", "n", " ", "g", "a", "r", "d", "e", "n", "s">>,
       <<"s", "l", "o", "a", "n", "e", " ", "s", "q", "u", "a", "r", "e">>,
       <<"p", "a", "u", "l", "t", "o", "n", "s", " ", "s", "q", "u", "a", "r", "e">>,
       <<"c", "h", "e", "l", "s", "e", "a", " ", "s", "q", "u", "a", "r", "e">>,
       <<"o", "n", "s", "l", "o", "w", " ", "s", "q", "u", "a", "r", "e">>,
       <<"p", "e", "l", "h", "a", "m", " ", "c", "r", "e", "s", "c", "e", "n", "t">>,
       <<"e", "g", "e", "r", "t", "o", "n", " ", "c", "r", "e", "s", "c", "e", "n", "t">>,
       <<"e", "g", "e", "r", "t", "o", "n", " ", "g", "a", "r", "d", "e", "n", "s">>,
       <<"o", "v", "i", "n", "g", "t", "o", "n", " ", "s", "q", "u", "a", "r", "e">> >>

\* ULTRA_PRIME_ADDRESSES (line 2070)
ULTRA_PRIME_ADDRESSES ==
    << <<"b", "e", "l", "g", "r", "a", "v", "e", " ", "s", "q", "u", "a", "r", "e">>,
       <<"c", "h", "e", "s", "t", "e", "r", " ", "s", "q", "u", "a", "r", "e">>,
       <<"e", "a", "t", "o", "n", " ", "s", "q", "u", "a", "r", "e">>,
       <<"w", "i", "l", "t", "o", "n", " ", "c", "r", "e", "s", "c", "e", "n", "t">>,
       <<"g", "r", "o", "s", "v", "e", "n", "o", "r", " ", "s", "q", "u", "a", "r", "e">>,
       <<"g", "r", "o", "s", "v", "e", "n", "o", "r", " ", "c", "r", "e", "s", "c", "e", "n", "t">>,
       <<"u", "p", "p", "e", "r", " ", "g", "r", "o", "s", "v", "e", "n", "o", "r", " ", "s", "t", "r", "e", "e", "t">>,
       <<"p", "a", "r", "k", " ", "l", "a", "n", "e">>,
       <<"h", "a", "m", "i", "l", "t", "o", "n", " ", "t", "e", "r", "r", "a", "c", "e">>,
       <<"a", "v", "e", "n", "u", "e", " ", "r", "o", "a", "d">>,
       <<"b", "i", "s", "h", "o", "p", "s", " ", "a", "v", "e", "n", "u", "e">> >>

\* PRIME_STREETS (line 2077)
PRIME_STREETS ==
    << <<"c", "a", "d", "o", "g", "a", "n", " ", "s", "q", "u", "a", "r", "e">>,
       <<"c", "a", "d", "o", "g", "a", "n", " ", "p", "l", "a", "c", "e">>,
       <<"c", "a", "d", "o", "g", "a", "n", " ", "g", "a", "r", "d", "e", "n", "s">>,
       <<"h", "a", "n", "s", " ", "p", "l", "a", "c", "e">>,
       <<"l", "e", "n", "n", "o", "x", " ", "g", "a", "r", "d", "e", "n", "s">>,
       <<"p", "o", "n", "t", " ", "s", "t", "r", "e", "e", "t">>,
       <<"s", "l", "o", "a", "n", "e", " ", "s", "t", "r", "e", "e", "t">>,
       <<"d", "r", "a", "y", "c", "o", "t", "t", " ", "p", "l", "a", "c", "e">>,
       <<"d", "r", "a", "y", "c", "o", "t", "t", " ", "a", "v", "e", "n", "u", "e">>,
       <<"e", "a", "t", "o", "n", " ", "p", "l", "a", "c", "e">>,
       <<"e", "a", "t", "o", "n", " ", "t", "e", "r", "r", "a", "c", "e">>,
       <<"m", "o", "n", "t", "p", "e", "l", "i", "e", "r", " ", "s", "t", "r", "e", "e", "t">>,
       <<"b", "r", "o", "m", "p", "t", "o", "n", " ", "s", "q", "u", "a", "r", "e">>,
       <<"t", "h", "u", "r", "l", "o", "e", " ", "s", "q", "u", "a", "r", "e">>,
       <<"e", "n", "n", "i", "s", "m", "o", "r", "e", " ", "g", "a", "r", "d", "e", "n", "s">>,
       <<"p", "r", "i", "n", "c", "e", "s", " ", "g", "a", "t", "e">>,
       <<"h", "y", "d", "e", " ", "p", "a", "r", "k", " ", "g", "a", "t", "e">>,
       <<"k", "e", "n", "s", "i", "n", "g", "t", "o", "n", " ", "p", "a", "l", "a", "c", "e", " ", "g", "a", "r", "d", "e", "n", "s">>,
       <<"p", "a", "l", "a", "c", "e", " ", "g", "a", "r", "d", "e", "n", "s", " ", "t", "e", "r", "r", "a", "c", "e">>,
       <<"c", "a", "m", "p", "d", "e", "n", " ", "h", "i", "l", "l">>,
       <<"h", "o", "l", "l", "a", "n", "d", " ", "p", "a", "r", "k">>,
       <<"p", "h", "i", "l", "l", "i", "m", "o", "r", "e", " ", "g", "a", "r", "d", "e", "n", "s">>,
       <<"c", "a", "r", "l", "y", "l", "e", " ", "s", "q", "u", "a", "r", "e">>,
       <<"c", "h", "e", "y", "n", "e", " ", "w", "a", "l", "k">>,
       <<"t", "h", "e", " ", "b", "o", "l", "t", "o", "n", "s">>,
       <<"t", "r", "e", "g", "u", "n", "t", "e", "r", " ", "r", "o", "a", "d">>,
       <<"e", "l", "m", " ", "p", "a", "r", "k", " ", "g", "a", "r", "d", "e", "n", "s">> >>

\* PREMIUM_AGENTS (line 2126)
PREMIUM_AGENTS ==
    << <<"k", "n", "i", "g", "h", "t", " ", "f", "r", "a", "n", "k">>,
       <<"s", "a", "v", "i", "l", "l", "s">>,
       <<"h", "a", "r", "r", "o", "d", "s">>,
       <<"s", "o", "t", "h", "e", "b", "y">>,
       <<"b", "e", "a", "u", "c", "h", "a", "m", "p">>,
       <<"s", "t", "r", "u", "t", "t">>,
       <<"c", "h", "e", "s", "t", "e", "r", "t", "o", "n", "s">>,
       <<"c", "a", "r", "t", "e", "r", " ", "j", "o", "n", "a", "s">>,
       <<"h", "a", "m", "p", "t", "o", "n", "s">>,
       <<"w", "i", "n", "k", "w", "o", "r", "t", "h">>,
       <<"m", "a", "r", "s", "h">> >>

\* HOUSE_TYPES (line 2130)
HOUSE_TYPES ==
    << <<"h", "o", "u", "s", "e">>,
       <<"t", "e", "r", "r", "a", "c", "e", "d">>,
       <<"d", "e", "t", "a", "c", "h", "e", "d">>,
       <<"s", "e", "m", "i", "-", "d", "e", "t", "a", "c", "h", "e", "d">>,
       <<"t", "o", "w", "n", " ", "h", "o", "u", "s", "e">>,
       <<"c", "o", "t", "t", "a", "g", "e">>,
       <<"e", "n", "d", " ", "o", "f", " ", "t", "e", "r", "r", "a", "c", "e">>,
       <<"l", "i", "n", "k", " ", "d", "e", "t", "a", "c", "h", "e", "d">> >>

\* FLAT_TYPES (line 2131)
FLAT_TYPES ==
    << <<"f", "l", "a", "t">>,
       <<"a", "p", "a", "r", "t", "m", "e", "n", "t">>,
       <<"s", "t", "u", "d", "i", "o">>,
       <<"p", "e", "n", "t", "h", "o", "u", "s", "e">>,
       <<"m", "a", "i", "s", "o", "n", "e", "t", "t", "e">>,
       <<"d", "u", "p", "l", "e", "x">>,
       <<"g", "r", "o", "u", "n", "d", " ", "f", "l", "a", "t">> >>

\* TUBE_STATIONS (lines 2092-2110)
TUBE_STATIONS ==
    << [name |-> "South Kensington", lat |-> Q(514941, 10000), lon |-> Q(-1738, 10000)],
       [name |-> "Sloane Square", lat |-> Q(514924, 10000), lon |-> Q(-1565, 10000)],
       [name |-> "Knightsbridge", lat |-> Q(515015, 10000), lon |-> Q(-1607, 10000)],
       [name |-> "Hyde Park Corner", lat |-> Q(515027, 10000), lon |-> Q(-1527, 10000)],
       [name |-> "Green Park", lat |-> Q(515067, 10000), lon |-> Q(-1428, 10000)],
       [name |-> "Bond Street", lat |-> Q(515142, 10000), lon |-> Q(-1494, 10000)],
       [name |-> "Notting Hill Gate", lat |-> Q(515094, 10000), lon |-> Q(-1967, 10000)],
       [name |-> "High Street Kensington", lat |-> Q(515009, 10000), lon |-> Q(-1925, 10000)],
       [name |-> "Earls Court", lat |-> Q(514914, 10000), lon |-> Q(-1934, 10000)],
       [name |-> "Gloucester Road", lat |-> Q(514945, 10000), lon |-> Q(-1829, 10000)],
       [name |-> "St Johns Wood", lat |-> Q(515347, 10000), lon |-> Q(-1740, 10000)],
       [name |-> "Hampstead", lat |-> Q(515566, 10000), lon |-> Q(-1780, 10000)],
       [name |-> "Baker Street", lat |-> Q(515226, 10000), lon |-> Q(-1571, 10000)],
       [name |-> "Victoria", lat |-> Q(514965, 10000), lon |-> Q(-1447, 10000)],
       [name |-> "Westminster", lat |-> Q(515014, 10000), lon |-> Q(-1248, 10000)],
       [name |-> "Paddington", lat |-> Q(515154, 10000), lon |-> Q(-1755, 10000)],
       [name |-> "Canary Wharf", lat |-> Q(515033, 10000), lon |-> Q(-181, 10000)] >>

\* SOURCE_QUALITY (line 2139), in the order Object.entries walks it
SOURCE_QUALITY ==
    << [source |-> <<"s", "a", "v", "i", "l", "l", "s">>, quality |-> N(4)],
       [source |-> <<"k", "n", "i", "g", "h", "t", "f", "r", "a", "n", "k">>, quality |-> N(4)],
       [source |-> <<"k", "n", "i", "g", "h", "t", " ", "f", "r", "a", "n", "k">>, quality |-> N(4)],
       [source |-> <<"c", "h", "e", "s", "t", "e", "r", "t", "o", "n", "s">>, quality |-> N(3)],
       [source |-> <<"f", "o", "x", "t", "o", "n", "s">>, quality |-> N(2)],
       [source |-> <<"r", "i", "g", "h", "t", "m", "o", "v", "e">>, quality |-> N(1)],
       [source |-> <<"z", "o", "o", "p", "l", "a">>, quality |-> N(1)] >>

\* PROPERTY_TYPE_NUM (line 2142), in the order Object.entries walks it
PROPERTY_TYPE_NUM ==
    << [type |-> <<"s", "t", "u", "d", "i", "o">>, num |-> N(0)],
       [type |-> <<"f", "l", "a", "t">>, num |-> N(1)],
       [type |-> <<"a", "p", "a", "r", "t", "m", "e", "n", "t">>, num |-> N(1)],
       [type |-> <<"m", "a", "i", "s", "o", "n", "e", "t", "t", "e">>, num |-> N(2)],
       [type |-> <<"h", "o", "u", "s", "e">>, num |-> N(3)],
       [type |-> <<"p", "e", "n", "t", "h", "o", "u", "s", "e">>, num |-> N(4)],
       [type |-> <<"t", "o", "w", "n", "h", "o", "u", "s", "e">>, num |-> N(3)],
       [type |-> <<"t", "o", "w", "n", " ", "h", "o", "u", "s", "e">>, num |-> N(3)] >>

\* POSTCODE_FREQ (line 2145), in the order Object.entries walks it
POSTCODE_FREQ ==
    << [key |-> <<"S", "W", "3">>, freq |-> Q(74, 1000)],
       [key |-> <<"S", "W", "7">>, freq |-> Q(68, 1000)],
       [key |-> <<"W", "8">>, freq |-> Q(55, 1000)],
       [key |-> <<"W", "2">>, freq |-> Q(52, 1000)],
       [key |-> <<"S", "W", "5">>, freq |-> Q(48, 1000)],
       [key |-> <<"S", "W", "1", "1">>, freq |-> Q(45, 1000)],
       [key |-> <<"S", "W", "1", "0">>, freq |-> Q(44, 1000)],
       [key |-> <<"N", "W", "8">>, freq |-> Q(42, 1000)],
       [key |-> <<"W", "1", "1">>, freq |-> Q(41, 1000)],
       [key |-> <<"S", "W", "1", "X">>, freq |-> Q(38, 1000)],
       [key |-> <<"N", "W", "3">>, freq |-> Q(36, 1000)],
       [key |-> <<"S", "W", "1", "W">>, freq |-> Q(34, 1000)],
       [key |-> <<"W", "1", "4">>, freq |-> Q(32, 1000)],
       [key |-> <<"N", "W", "1">>, freq |-> Q(30, 1000)],
       [key |-> <<"W", "1", "0">>, freq |-> Q(28, 1000)],
       [key |-> <<"S", "W", "6">>, freq |-> Q(25, 1000)],
       [key |-> <<"W", "1">>, freq |-> Q(24, 1000)],
       [key |-> <<"S", "W", "1">>, freq |-> Q(22, 1000)],
       [key |-> <<"E", "C", "1">>, freq |-> Q(20, 1000)],
       [key |-> <<"W", "C", "1">>, freq |-> Q(18, 1000)],
       [key |-> <<"d", "e", "f", "a", "u", "l", "t">>, freq |-> Q(15, 1000)] >>

\* POSTCODE_AREA_FREQ (line 2154), in the order Object.entries walks it
POSTCODE_AREA_FREQ ==
    << [key |-> <<"S", "W">>, freq |-> Q(44, 100)],
       [key |-> <<"W">>, freq |-> Q(28, 100)],
       [key |-> <<"N", "W">>, freq |-> Q(15, 100)],
       [key |-> <<"E", "C">>, freq |-> Q(4, 100)],
       [key |-> <<"W", "C">>, freq |-> Q(3, 100)],
       [key |-> <<"E">>, freq |-> Q(2, 100)],
       [key |-> <<"S", "E">>, freq |-> Q(2, 100)],
       [key |-> <<"N">>, freq |-> Q(1, 100)],
       [key |-> <<"d", "e", "f", "a", "u", "l", "t">>, freq |-> Q(1, 100)] >>

\* SIZE_QUINTILES (line 2160)
SIZE_QUINTILES == <<N(0), N(484), N(635), N(818), N(1141), QInfinity(1)>>

\* string constants used below
FLAT    == <<"f", "l", "a", "t">>
MEWS    == <<"m", "e", "w", "s">>
DEFAULT == <<"d", "e", "f", "a", "u", "l", "t">>

\* ---- helpers of buildFeatures; a string argument is its characters, '' being << >>

Flag(b) == IF b THEN N(1) ELSE N(0)

\* a || b on strings: null, undefined and '' are falsy
StrOr(arg, dflt) == IF arg.isNull \/ arg.chars = <<>> THEN dflt ELSE arg.chars

\* list.some(item => text.includes(item))
SomeIncluded(text, list) == \E i \in 1..Len(list) : Includes(text, list[i])

\* obj[key] on one of the lookup tables: the entry's value, undefined without entry
LookupFreq(table, key) ==
    IF \E i \in 1..Len(table) : table[i].key = key
    THEN table[CHOOSE i \in 1..Len(table) : table[i].key = key].freq
    ELSE QUndefined

\* obj.prop on a returned object: undefined when the object has no such property
Prop(obj, key) == IF key \in DOMAIN obj THEN obj[key] ELSE QUndefined

\* isPremiumAgent (lines 2294-2297)
isPremiumAgent(agentName, pageUrl) ==
    LET combined == ToLowerCase(agentName \o <<" ">> \o pageUrl)
    IN  Flag(SomeIncluded(combined, PREMIUM_AGENTS))

\* the loop of getSourceQuality from entry i on
RECURSIVE SourceQualityFrom(_, _)
SourceQualityFrom(urlLower, i) ==
    IF i > Len(SOURCE_QUALITY) THEN N(1)
    ELSE IF Includes(urlLower, ReplaceFirst(SOURCE_QUALITY[i].source, <<" ">>, <<>>))
    THEN SOURCE_QUALITY[i].quality
    ELSE SourceQualityFrom(urlLower, i + 1)

\* getSourceQuality (lines 2300-2307)
getSourceQuality(pageUrl) ==
    IF pageUrl = <<>> THEN N(1)
    ELSE SourceQualityFrom(ToLowerCase(pageUrl), 1)

\* getPropertyTypeNum (lines 2310-2313)
getPropertyTypeNum(ptype) ==
    LET typeLower == ToLowerCase(IF ptype = <<>> THEN FLAT ELSE ptype)
    IN  IF \E i \in 1..Len(PROPERTY_TYPE_NUM) : PROPERTY_TYPE_NUM[i].type = typeLower
        THEN PROPERTY_TYPE_NUM[CHOOSE i \in 1..Len(PROPERTY_TYPE_NUM) :
                                   PROPERTY_TYPE_NUM[i].type = typeLower].num
        ELSE N(1)

\* getPostcodeFreq (lines 2316-2318)
getPostcodeFreq(postcodeDistrict) ==
    QOr(LookupFreq(POSTCODE_FREQ, postcodeDistrict), LookupFreq(POSTCODE_FREQ, DEFAULT))

\* the letters a string starts with: match(/^([A-Z]+)/i)?.[1]
IsLetter(c) == \E i \in 1..26 : UpperChars[i] = c \/ LowerChars[i] = c

RECURSIVE LeadingLetters(_)
LeadingLetters(str) ==
    IF str # <<>> /\ IsLetter(str[1])
    THEN <<str[1]>> \o LeadingLetters(Tail(str))
    ELSE <<>>

\* getPostcodeAreaFreq (lines 2321-2324)
getPostcodeAreaFreq(postcodeDistrict) ==
    LET letters == ToUpperCase(LeadingLetters(postcodeDistrict))
        area    == IF letters = <<>> THEN <<"S", "W">> ELSE letters
    IN  QOr(LookupFreq(POSTCODE_AREA_FREQ, area), LookupFreq(POSTCODE_AREA_FREQ, DEFAULT))

\* the loop of getSizeBin from i on (i is 0-based as in the source)
RECURSIVE SizeBinFrom(_, _)
SizeBinFrom(sqft, i) ==
    IF i >= Len(SIZE_QUINTILES) - 1 THEN N(4)
    ELSE IF QLess(sqft, SIZE_QUINTILES[i + 2]) THEN N(i)
    ELSE SizeBinFrom(sqft, i + 1)

\* getSizeBin (lines 2327-2332)
getSizeBin(sqft) == SizeBinFrom(sqft, 0)

\* isShortLet (lines 2335-2340)
isShortLet(desc, pageUrl) ==
    LET combined == ToLowerCase(desc \o <<" ">> \o pageUrl)
    IN  Flag(\/ Includes(combined, <<"s", "h", "o", "r", "t", " ", "l", "e", "t">>)
             \/ Includes(combined, <<"s", "h", "o", "r", "t", "-", "l", "e", "t">>)
             \/ Includes(combined, <<"h", "o", "l", "i", "d", "a", "y", " ", "l", "e", "t">>)
             \/ Includes(combined, <<"s", "e", "r", "v", "i", "c", "e", "d", " ", "a", "p", "a", "r", "t", "m", "e", "n", "t">>)
             \/ Includes(combined, <<"c", "o", "r", "p", "o", "r", "a", "t", "e", " ", "l", "e", "t">>))

\* isMews (lines 2344-2349)
isMews(ptype, address) ==
    IF ptype = <<>> /\ address = <<>> THEN N(0)
    ELSE Flag(\/ Includes(ToLowerCase(ptype), MEWS)
              \/ Includes(ToLowerCase(address), MEWS))

\* isHouseType (lines 2352-2358)
isHouseType(ptype) ==
    IF ptype = <<>> THEN N(0)
    ELSE LET typeLower == ToLowerCase(ptype)
         IN  IF Includes(typeLower, MEWS) THEN N(0)
             ELSE Flag(SomeIncluded(typeLower, HOUSE_TYPES))

\* isFlatType (lines 2361-2365)
isFlatType(ptype) ==
    IF ptype = <<>> THEN N(0)
    ELSE Flag(SomeIncluded(ToLowerCase(ptype), FLAT_TYPES))

\* isSocialHousing (lines 2393-2410)
isSocialHousing(address, ppsf, postcodeDistrict) ==
    IF address = <<>> THEN N(0)
    ELSE LET addrLower == ToLowerCase(address)
         IN  IF \E i \in 1..Len(SOCIAL_ESTATE_PATTERNS) :
                    RegexTest(addrLower, SOCIAL_ESTATE_PATTERNS[i])
             THEN N(1)
             ELSE IF /\ QTruthy(ppsf) /\ QLess(ppsf, Q(35, 10))
                     /\ \E i \in 1..Len(PREMIUM_POSTCODES_SOCIAL) :
                            StartsWith(postcodeDistrict, PREMIUM_POSTCODES_SOCIAL[i])
             THEN N(1)
             ELSE N(0)

\* isTiny, isHuge (lines 2415-2421)
isTiny(sqft) == Flag(QLess(sqft, N(400)))
isHuge(sqft) == Flag(QGeq(sqft, N(3000)))

\* hasEnsuiteEach (lines 2424-2427)
hasEnsuiteEach(bathrooms, bedrooms) ==
    LET bedsAdj == QMax(bedrooms, Q(1, 2))
    IN  Flag(QGeq(QDiv(bathrooms, bedsAdj), N(1)))

\* highBathroomCount (lines 2429-2431)
highBathroomCount(bathrooms) == Flag(QGeq(bathrooms, N(4)))

\* excessBathrooms (lines 2433-2435)
excessBathrooms(bathrooms, bedrooms) == QMax(N(0), QSub(bathrooms, bedrooms))

\* isTerraced (lines 2438-2442)
isTerraced(ptype) ==
    IF ptype = <<>> THEN N(0)
    ELSE LET typeLower == ToLowerCase(ptype)
         IN  Flag(Includes(typeLower, <<"t", "e", "r", "r", "a", "c", "e", "d">>) \/ Includes(typeLower, <<"t", "o", "w", "n", " ", "h", "o", "u", "s", "e">>))

\* isStudio (lines 2444-2446)
isStudio(bedrooms, sqft) == Flag(bedrooms = N(1) /\ QLess(sqft, N(400)))

\* isHouseboat (lines 2448-2451)
isHouseboat(ptype) ==
    IF ptype = <<>> THEN N(0)
    ELSE Flag(Includes(ToLowerCase(ptype), <<"h", "o", "u", "s", "e", " ", "b", "o", "a", "t">>))

\* isDuplexMaisonette (lines 2453-2457)
isDuplexMaisonette(ptype) ==
    IF ptype = <<>> THEN N(0)
    ELSE LET typeLower == ToLowerCase(ptype)
         IN  Flag(Includes(typeLower, <<"d", "u", "p", "l", "e", "x">>) \/ Includes(typeLower, <<"m", "a", "i", "s", "o", "n", "e", "t", "t", "e">>))

\* isPenthouse (lines 2459-2464)
isPenthouse(ptype, address) ==
    IF ptype = <<>> /\ address = <<>> THEN N(0)
    ELSE Flag(\/ ToLowerCase(ptype) = <<"p", "e", "n", "t", "h", "o", "u", "s", "e">>
              \/ Includes(ToLowerCase(address), <<"p", "e", "n", "t", "h", "o", "u", "s", "e">>))

\* isGardenFlat (lines 2467-2470)
isGardenFlat(address) ==
    IF address = <<>> THEN N(0)
    ELSE Flag(Includes(ToLowerCase(address), <<"g", "a", "r", "d", "e", "n", " ", "f", "l", "a", "t">>))

\* isBasementFlat (lines 2472-2476)
isBasementFlat(address) ==
    IF address = <<>> THEN N(0)
    ELSE LET addrLower == ToLowerCase(address)
         IN  Flag(\/ Includes(addrLower, <<"b", "a", "s", "e", "m", "e", "n", "t", " ", "f", "l", "a", "t">>)
                  \/ Includes(addrLower, <<"b", "a", "s", "e", "m", "e", "n", "t", " ", "a", "p", "a", "r", "t", "m", "e", "n", "t">>))

\* const keywords of hasRefurbKeywords (lines 2486-2487)
RefurbKeywords ==
    << <<"r", "e", "f", "u", "r", "b", "i", "s", "h", "e", "d">>,
       <<"n", "e", "w", "l", "y", " ", "d", "e", "c", "o", "r", "a", "t", "e", "d">>,
       <<"n", "e", "w", "l", "y", " ", "r", "e", "n", "o", "v", "a", "t", "e", "d">>,
       <<"b", "r", "a", "n", "d", " ", "n", "e", "w">>,
       <<"j", "u", "s", "t", " ", "c", "o", "m", "p", "l", "e", "t", "e", "d">>,
       <<"n", "e", "w", "l", "y", " ", "f", "i", "t", "t", "e", "d">> >>

\* hasRefurbKeywords (lines 2483-2489)
hasRefurbKeywords(desc) ==
    IF desc = <<>> THEN N(0)
    ELSE Flag(SomeIncluded(ToLowerCase(desc), RefurbKeywords))

\* isGardenSquare, isUltraPrimeAddress, isPrimeStreet (lines 2493-2511)
isGardenSquare(address) ==
    IF address = <<>> THEN N(0)
    ELSE Flag(SomeIncluded(ToLowerCase(address), GARDEN_SQUARES))

isUltraPrimeAddress(address) ==
    IF address = <<>> THEN N(0)
    ELSE Flag(SomeIncluded(ToLowerCase(address), ULTRA_PRIME_ADDRESSES))

isPrimeStreet(address) ==
    IF address = <<>> THEN N(0)
    ELSE Flag(SomeIncluded(ToLowerCase(address), PRIME_STREETS))

\* getAddressPrestige (lines 2514-2516)
getAddressPrestige(gardenSquare, ultraPrime, primeStreet) ==
    QAdd(QAdd(QMul(ultraPrime, N(3)), QMul(gardenSquare, N(2))), primeStreet)

\* parseAmenities (lines 2522-2542): {} for an empty text
parseAmenities(text) ==
    IF text = <<>> THEN NoResult
    ELSE
    LET t == ToLowerCase(text)
        has(word) == Includes(t, word)
    IN  [has_balcony       |-> Flag(has(<<"b", "a", "l", "c", "o", "n", "y">>)),
         has_terrace       |-> Flag(has(<<"t", "e", "r", "r", "a", "c", "e">>) /\ ~has(<<"r", "o", "o", "f", " ", "t", "e", "r", "r", "a", "c", "e">>)),
         has_roof_terrace  |-> Flag(has(<<"r", "o", "o", "f", " ", "t", "e", "r", "r", "a", "c", "e">>)),
         has_garden        |-> Flag(has(<<"g", "a", "r", "d", "e", "n">>)),
         has_porter        |-> Flag(has(<<"p", "o", "r", "t", "e", "r">>) \/ has(<<"c", "o", "n", "c", "i", "e", "r", "g", "e">>)),
         has_gym           |-> Flag(has(<<"g", "y", "m">>) \/ has(<<"f", "i", "t", "n", "e", "s", "s">>)),
         has_pool          |-> Flag(has(<<"p", "o", "o", "l">>) \/ has(<<"s", "w", "i", "m", "m", "i", "n", "g">>)),
         has_parking       |-> Flag(has(<<"p", "a", "r", "k", "i", "n", "g">>) \/ has(<<"g", "a", "r", "a", "g", "e">>)),
         has_lift          |-> Flag(has(<<"l", "i", "f", "t">>) \/ has(<<"e", "l", "e", "v", "a", "t", "o", "r">>)),
         has_ac            |-> Flag(\/ has(<<"a", "i", "r", " ", "c", "o", "n">>) \/ has(<<"a", "/", "c">>)
                                    \/ has(<<"a", "i", "r", "-", "c", "o", "n">>) \/ has(<<"a", "i", "r", "c", "o", "n">>)),
         has_high_ceilings |-> Flag(has(<<"h", "i", "g", "h", " ", "c", "e", "i", "l", "i", "n", "g">>)),
         has_view          |-> Flag(has(<<"v", "i", "e", "w">>)),
         has_modern        |-> Flag(has(<<"m", "o", "d", "e", "r", "n">>) \/ has(<<"c", "o", "n", "t", "e", "m", "p", "o", "r", "a", "r", "y">>)),
         has_period        |-> Flag(has(<<"p", "e", "r", "i", "o", "d">>) \/ has(<<"v", "i", "c", "t", "o", "r", "i", "a", "n">>) \/ has(<<"g", "e", "o", "r", "g", "i", "a", "n">>)),
         has_furnished     |-> Flag(has(<<"f", "u", "r", "n", "i", "s", "h", "e", "d">>) /\ ~has(<<"u", "n", "f", "u", "r", "n", "i", "s", "h", "e", "d">>))]

\* ---- Math.log1p, Math.sqrt and haversine on the arguments that occur, to 3 decimals

Log1pTable ==
    { [x |-> N(0), y |-> N(0)],
      [x |-> Q(699, 1000), y |-> Q(53, 100)],
      [x |-> Q(1401, 1000), y |-> Q(219, 250)],
      [x |-> Q(407, 250), y |-> Q(483, 500)],
      [x |-> Q(921, 500), y |-> Q(209, 200)],
      [x |-> Q(481, 250), y |-> Q(1073, 1000)],
      [x |-> Q(119, 50), y |-> Q(609, 500)],
      [x |-> Q(336, 125), y |-> Q(261, 200)],
      [x |-> N(350), y |-> Q(5861, 1000)],
      [x |-> N(450), y |-> Q(6111, 1000)],
      [x |-> N(900), y |-> Q(1701, 250)] }

SqrtTable ==
    { [x |-> N(350), y |-> Q(4677, 250)],
      [x |-> N(450), y |-> Q(21213, 1000)],
      [x |-> N(900), y |-> N(30)] }

HaversineTable ==
    { [lat1 |-> Q(257537, 5000), lon1 |-> Q(-639, 5000), lat2 |-> Q(514941, 10000), lon2 |-> Q(-869, 5000), km |-> Q(3511, 1000)],
      [lat1 |-> Q(257537, 5000), lon1 |-> Q(-639, 5000), lat2 |-> Q(128731, 2500), lon2 |-> Q(-313, 2000), km |-> Q(1297, 500)],
      [lat1 |-> Q(257537, 5000), lon1 |-> Q(-639, 5000), lat2 |-> Q(103003, 2000), lon2 |-> Q(-1607, 10000), km |-> Q(237, 100)],
      [lat1 |-> Q(257537, 5000), lon1 |-> Q(-639, 5000), lat2 |-> Q(515027, 10000), lon2 |-> Q(-1527, 10000), km |-> Q(1801, 1000)],
      [lat1 |-> Q(257537, 5000), lon1 |-> Q(-639, 5000), lat2 |-> Q(515067, 10000), lon2 |-> Q(-357, 2500), km |-> Q(1041, 1000)],
      [lat1 |-> Q(257537, 5000), lon1 |-> Q(-639, 5000), lat2 |-> Q(257571, 5000), lon2 |-> Q(-747, 5000), km |-> Q(67, 40)],
      [lat1 |-> Q(257537, 5000), lon1 |-> Q(-639, 5000), lat2 |-> Q(257547, 5000), lon2 |-> Q(-1967, 10000), km |-> Q(2387, 500)],
      [lat1 |-> Q(257537, 5000), lon1 |-> Q(-639, 5000), lat2 |-> Q(515009, 10000), lon2 |-> Q(-77, 400), km |-> Q(567, 125)],
      [lat1 |-> Q(257537, 5000), lon1 |-> Q(-639, 5000), lat2 |-> Q(257457, 5000), lon2 |-> Q(-967, 5000), km |-> Q(4877, 1000)],
      [lat1 |-> Q(257537, 5000), lon1 |-> Q(-639, 5000), lat2 |-> Q(102989, 2000), lon2 |-> Q(-1829, 10000), km |-> Q(163, 40)],
      [lat1 |-> Q(257537, 5000), lon1 |-> Q(-639, 5000), lat2 |-> Q(515347, 10000), lon2 |-> Q(-87, 500), km |-> Q(551, 125)],
      [lat1 |-> Q(257537, 5000), lon1 |-> Q(-639, 5000), lat2 |-> Q(257783, 5000), lon2 |-> Q(-89, 500), km |-> Q(162, 25)],
      [lat1 |-> Q(257537, 5000), lon1 |-> Q(-639, 5000), lat2 |-> Q(257613, 5000), lon2 |-> Q(-1571, 10000), km |-> Q(66, 25)],
      [lat1 |-> Q(257537, 5000), lon1 |-> Q(-639, 5000), lat2 |-> Q(102993, 2000), lon2 |-> Q(-1447, 10000), km |-> Q(421, 250)],
      [lat1 |-> Q(257537, 5000), lon1 |-> Q(-639, 5000), lat2 |-> Q(257507, 5000), lon2 |-> Q(-78, 625), km |-> Q(699, 1000)],
      [lat1 |-> Q(257537, 5000), lon1 |-> Q(-639, 5000), lat2 |-> Q(257577, 5000), lon2 |-> Q(-351, 2000), km |-> Q(3419, 1000)],
      [lat1 |-> Q(257537, 5000), lon1 |-> Q(-639, 5000), lat2 |-> Q(515033, 10000), lon2 |-> Q(-181, 10000), km |-> Q(3803, 500)],
      [lat1 |-> Q(257537, 5000), lon1 |-> Q(-639, 5000), lat2 |-> Q(257537, 5000), lon2 |-> Q(-639, 5000), km |-> N(0)],
      [lat1 |-> Q(257537, 5000), lon1 |-> Q(-1, 10), lat2 |-> Q(514941, 10000), lon2 |-> Q(-869, 5000), km |-> Q(2659, 500)],
      [lat1 |-> Q(257537, 5000), lon1 |-> Q(-1, 10), lat2 |-> Q(128731, 2500), lon2 |-> Q(-313, 2000), km |-> Q(1063, 250)],
      [lat1 |-> Q(257537, 5000), lon1 |-> Q(-1, 10), lat2 |-> Q(103003, 2000), lon2 |-> Q(-1607, 10000), km |-> Q(1063, 250)],
      [lat1 |-> Q(257537, 5000), lon1 |-> Q(-1, 10), lat2 |-> Q(515027, 10000), lon2 |-> Q(-1527, 10000), km |-> Q(737, 200)],
      [lat1 |-> Q(257537, 5000), lon1 |-> Q(-1, 10), lat2 |-> Q(515067, 10000), lon2 |-> Q(-357, 2500), km |-> Q(2963, 1000)],
      [lat1 |-> Q(257537, 5000), lon1 |-> Q(-1, 10), lat2 |-> Q(257571, 5000), lon2 |-> Q(-747, 5000), km |-> Q(3501, 1000)],
      [lat1 |-> Q(257537, 5000), lon1 |-> Q(-1, 10), lat2 |-> Q(257547, 5000), lon2 |-> Q(-1967, 10000), km |-> Q(837, 125)],
      [lat1 |-> Q(257537, 5000), lon1 |-> Q(-1, 10), lat2 |-> Q(515009, 10000), lon2 |-> Q(-77, 400), km |-> Q(6443, 1000)],
      [lat1 |-> Q(257537, 5000), lon1 |-> Q(-1, 10), lat2 |-> Q(257457, 5000), lon2 |-> Q(-967, 5000), km |-> Q(3353, 500)],
      [lat1 |-> Q(257537, 5000), lon1 |-> Q(-1, 10), lat2 |-> Q(102989, 2000), lon2 |-> Q(-1829, 10000), km |-> Q(1183, 200)],
      [lat1 |-> Q(257537, 5000), lon1 |-> Q(-1, 10), lat2 |-> Q(515347, 10000), lon2 |-> Q(-87, 500), km |-> Q(744, 125)],
      [lat1 |-> Q(257537, 5000), lon1 |-> Q(-1, 10), lat2 |-> Q(257783, 5000), lon2 |-> Q(-89, 500), km |-> Q(1921, 250)],
      [lat1 |-> Q(257537, 5000), lon1 |-> Q(-1, 10), lat2 |-> Q(257613, 5000), lon2 |-> Q(-1571, 10000), km |-> Q(2149, 500)],
      [lat1 |-> Q(257537, 5000), lon1 |-> Q(-1, 10), lat2 |-> Q(102993, 2000), lon2 |-> Q(-1447, 10000), km |-> Q(3323, 1000)],
      [lat1 |-> Q(257537, 5000), lon1 |-> Q(-1, 10), lat2 |-> Q(257507, 5000), lon2 |-> Q(-78, 625), km |-> Q(921, 500)],
      [lat1 |-> Q(257537, 5000), lon1 |-> Q(-1, 10), lat2 |-> Q(257577, 5000), lon2 |-> Q(-351, 2000), km |-> Q(53, 10)],
      [lat1 |-> Q(257537, 5000), lon1 |-> Q(-1, 10), lat2 |-> Q(515033, 10000), lon2 |-> Q(-181, 10000), km |-> Q(5687, 1000)],
      [lat1 |-> Q(257537, 5000), lon1 |-> Q(-1, 10), lat2 |-> Q(257537, 5000), lon2 |-> Q(-639, 5000), km |-> Q(481, 250)],
      [lat1 |-> Q(1288, 25), lon1 |-> Q(-639, 5000), lat2 |-> Q(514941, 10000), lon2 |-> Q(-869, 5000), km |-> Q(4293, 1000)],
      [lat1 |-> Q(1288, 25), lon1 |-> Q(-639, 5000), lat2 |-> Q(128731, 2500), lon2 |-> Q(-313, 2000), km |-> Q(457, 125)],
      [lat1 |-> Q(1288, 25), lon1 |-> Q(-639, 5000), lat2 |-> Q(103003, 2000), lon2 |-> Q(-1607, 10000), km |-> Q(767, 250)],
      [lat1 |-> Q(1288, 25), lon1 |-> Q(-639, 5000), lat2 |-> Q(515027, 10000), lon2 |-> Q(-1527, 10000), km |-> Q(2583, 1000)],
      [lat1 |-> Q(1288, 25), lon1 |-> Q(-639, 5000), lat2 |-> Q(515067, 10000), lon2 |-> Q(-357, 2500), km |-> Q(1807, 1000)],
      [lat1 |-> Q(1288, 25), lon1 |-> Q(-639, 5000), lat2 |-> Q(257571, 5000), lon2 |-> Q(-747, 5000), km |-> Q(407, 250)],
      [lat1 |-> Q(1288, 25), lon1 |-> Q(-639, 5000), lat2 |-> Q(257547, 5000), lon2 |-> Q(-1967, 10000), km |-> Q(4911, 1000)],
      [lat1 |-> Q(1288, 25), lon1 |-> Q(-639, 5000), lat2 |-> Q(515009, 10000), lon2 |-> Q(-77, 400), km |-> Q(1239, 250)],
      [lat1 |-> Q(1288, 25), lon1 |-> Q(-639, 5000), lat2 |-> Q(257457, 5000), lon2 |-> Q(-967, 5000), km |-> Q(5543, 1000)],
      [lat1 |-> Q(1288, 25), lon1 |-> Q(-639, 5000), lat2 |-> Q(102989, 2000), lon2 |-> Q(-1829, 10000), km |-> Q(594, 125)],
      [lat1 |-> Q(1288, 25), lon1 |-> Q(-639, 5000), lat2 |-> Q(515347, 10000), lon2 |-> Q(-87, 500), km |-> Q(359, 100)],
      [lat1 |-> Q(1288, 25), lon1 |-> Q(-639, 5000), lat2 |-> Q(257783, 5000), lon2 |-> Q(-89, 500), km |-> Q(5349, 1000)],
      [lat1 |-> Q(1288, 25), lon1 |-> Q(-639, 5000), lat2 |-> Q(257613, 5000), lon2 |-> Q(-1571, 10000), km |-> Q(256, 125)],
      [lat1 |-> Q(1288, 25), lon1 |-> Q(-639, 5000), lat2 |-> Q(102993, 2000), lon2 |-> Q(-1447, 10000), km |-> Q(2863, 1000)],
      [lat1 |-> Q(1288, 25), lon1 |-> Q(-639, 5000), lat2 |-> Q(257507, 5000), lon2 |-> Q(-78, 625), km |-> Q(2079, 1000)],
      [lat1 |-> Q(1288, 25), lon1 |-> Q(-639, 5000), lat2 |-> Q(257577, 5000), lon2 |-> Q(-351, 2000), km |-> Q(167, 50)],
      [lat1 |-> Q(1288, 25), lon1 |-> Q(-639, 5000), lat2 |-> Q(515033, 10000), lon2 |-> Q(-181, 10000), km |-> Q(1563, 200)],
      [lat1 |-> Q(1288, 25), lon1 |-> Q(-639, 5000), lat2 |-> Q(257537, 5000), lon2 |-> Q(-639, 5000), km |-> Q(1401, 1000)],
      [lat1 |-> Q(1288, 25), lon1 |-> Q(-1, 10), lat2 |-> Q(514941, 10000), lon2 |-> Q(-869, 5000), km |-> Q(733, 125)],
      [lat1 |-> Q(1288, 25), lon1 |-> Q(-1, 10), lat2 |-> Q(128731, 2500), lon2 |-> Q(-313, 2000), km |-> Q(4971, 1000)],
      [lat1 |-> Q(1288, 25), lon1 |-> Q(-1, 10), lat2 |-> Q(103003, 2000), lon2 |-> Q(-1607, 10000), km |-> Q(4677, 1000)],
      [lat1 |-> Q(1288, 25), lon1 |-> Q(-1, 10), lat2 |-> Q(515027, 10000), lon2 |-> Q(-1527, 10000), km |-> Q(4123, 1000)],
      [lat1 |-> Q(1288, 25), lon1 |-> Q(-1, 10), lat2 |-> Q(515067, 10000), lon2 |-> Q(-357, 2500), km |-> Q(331, 100)],
      [lat1 |-> Q(1288, 25), lon1 |-> Q(-1, 10), lat2 |-> Q(257571, 5000), lon2 |-> Q(-747, 5000), km |-> Q(3479, 1000)],
      [lat1 |-> Q(1288, 25), lon1 |-> Q(-1, 10), lat2 |-> Q(257547, 5000), lon2 |-> Q(-1967, 10000), km |-> Q(3397, 500)],
      [lat1 |-> Q(1288, 25), lon1 |-> Q(-1, 10), lat2 |-> Q(515009, 10000), lon2 |-> Q(-77, 400), km |-> Q(1349, 200)],
      [lat1 |-> Q(1288, 25), lon1 |-> Q(-1, 10), lat2 |-> Q(257457, 5000), lon2 |-> Q(-967, 5000), km |-> Q(1801, 250)],
      [lat1 |-> Q(1288, 25), lon1 |-> Q(-1, 10), lat2 |-> Q(102989, 2000), lon2 |-> Q(-1829, 10000), km |-> Q(32, 5)],
      [lat1 |-> Q(1288, 25), lon1 |-> Q(-1, 10), lat2 |-> Q(515347, 10000), lon2 |-> Q(-87, 500), km |-> Q(2687, 500)],
      [lat1 |-> Q(1288, 25), lon1 |-> Q(-1, 10), lat2 |-> Q(257783, 5000), lon2 |-> Q(-89, 500), km |-> Q(3379, 500)],
      [lat1 |-> Q(1288, 25), lon1 |-> Q(-1, 10), lat2 |-> Q(257613, 5000), lon2 |-> Q(-1571, 10000), km |-> Q(3961, 1000)],
      [lat1 |-> Q(1288, 25), lon1 |-> Q(-1, 10), lat2 |-> Q(102993, 2000), lon2 |-> Q(-1447, 10000), km |-> Q(81, 20)],
      [lat1 |-> Q(1288, 25), lon1 |-> Q(-1, 10), lat2 |-> Q(257507, 5000), lon2 |-> Q(-78, 625), km |-> Q(336, 125)],
      [lat1 |-> Q(1288, 25), lon1 |-> Q(-1, 10), lat2 |-> Q(257577, 5000), lon2 |-> Q(-351, 2000), km |-> Q(5249, 1000)],
      [lat1 |-> Q(1288, 25), lon1 |-> Q(-1, 10), lat2 |-> Q(515033, 10000), lon2 |-> Q(-181, 10000), km |-> Q(1491, 250)],
      [lat1 |-> Q(1288, 25), lon1 |-> Q(-1, 10), lat2 |-> Q(257537, 5000), lon2 |-> Q(-639, 5000), km |-> Q(119, 50)] }

\* Math.log1p
MathLog1p(x) ==
    IF x.t # "num" THEN QNaN ELSE (CHOOSE e \in Log1pTable : e.x = x).y

\* Math.sqrt
MathSqrt(x) ==
    IF x.t # "num" THEN QNaN ELSE (CHOOSE e \in SqrtTable : e.x = x).y

\* haversine (lines 2284-2291), in km
haversine(lat1, lon1, lat2, lon2) ==
    IF \E v \in {lat1, lon1, lat2, lon2} : v.t # "num" THEN QNaN
    ELSE (CHOOSE e \in HaversineTable :
             e.lat1 = lat1 /\ e.lon1 = lon1 /\ e.lat2 = lat2 /\ e.lon2 = lon2).km

\* window.location.href of the page the script runs in
WindowLocationHref == <<"h", "t", "t", "p", "s", ":", "/", "/", "w", "w", "w", ".", "r", "i", "g", "h", "t", "m", "o", "v", "e", ".", "c", "o", ".", "u", "k", "/", "p", "r", "o", "p", "e", "r", "t", "i", "e", "s", "/", "1">>

\* Object.values(obj).reduce((a, b) => a + b, 0)
RECURSIVE SumValues(_, _)
SumValues(obj, ks) ==
    IF ks = {} THEN N(0)
    ELSE LET k == CHOOSE x \in ks : TRUE
         IN  QAdd(SumValues(obj, ks \ {k}), obj[k])

\* a one-hot object with its flags as numbers of the vector
AsNumbers(obj) == [k \in DOMAIN obj |-> N(obj[k])]

\* the defaults of buildFeatures (lines 2629-2641), sqft excepted, and the district
buildFeaturesDefaults(d) ==
    [beds             |-> QOr(d.bedrooms, N(1)),
     baths            |-> QOr(d.bathrooms, N(1)),
     postcodeStr      |-> StrOr(d.postcode, <<"S", "W", "3">>),
     postcodeDistrict |-> extractPostcodeDistrict(Str(StrOr(d.postcode, <<"S", "W", "3">>))),
     ptype            |-> StrOr(d.propertyType, FLAT),
     lat              |-> QOr(d.latitude, CITY_CENTER.lat),
     lon              |-> QOr(d.longitude, CITY_CENTER.lon),
     desc             |-> StrOr(d.description, <<>>),
     ocr              |-> StrOr(d.ocrText, <<>>),
     agentName        |-> StrOr(d.agentName, <<>>),
     pageUrl          |-> StrOr(d.pageUrl, WindowLocationHref),
     address          |-> StrOr(d.address, <<>>)]

\* what buildFeatures computes from the defaulted attributes c alone
buildFeaturesDerived(d, c) ==
    [sqft               |-> QOr(d.size_sqft, QMul(c.beds, N(450))),
     tubeDist           |-> QMinOf({haversine(c.lat, c.lon, TUBE_STATIONS[i].lat, TUBE_STATIONS[i].lon) :
                                    i \in 1..Len(TUBE_STATIONS)}),
     centerDist         |-> haversine(c.lat, c.lon, CITY_CENTER.lat, CITY_CENTER.lon),
     amenities          |-> parseAmenities(c.desc),
     floorsFound        |-> extractFloors(Str(c.ocr)),
     postcodeFlags      |-> getPostcodeOneHot(c.postcodeDistrict),
     propertyTypeOneHot |-> getPropertyTypeOneHot(Str(c.ptype)),
     premiumAgent       |-> isPremiumAgent(c.agentName, c.pageUrl),
     sourceQuality      |-> getSourceQuality(c.pageUrl),
     propertyTypeNum    |-> getPropertyTypeNum(c.ptype),
     shortLet           |-> isShortLet(c.desc, c.pageUrl),
     gardenSquare       |-> isGardenSquare(c.address),
     ultraPrimeAddress  |-> isUltraPrimeAddress(c.address),
     primeStreet        |-> isPrimeStreet(c.address),
     ensuiteEach        |-> hasEnsuiteEach(c.baths, c.beds),
     highBathrooms      |-> highBathroomCount(c.baths),
     excessBaths        |-> excessBathrooms(c.baths, c.beds),
     terraced           |-> isTerraced(c.ptype),
     houseboat          |-> isHouseboat(c.ptype),
     duplexMaisonette   |-> isDuplexMaisonette(c.ptype),
     penthouse          |-> isPenthouse(c.ptype, c.address),
     gardenFlat         |-> isGardenFlat(c.address),
     basementFlat       |-> isBasementFlat(c.address),
     refurbKeywords     |-> hasRefurbKeywords(c.desc),
     mews               |-> isMews(c.ptype, c.address),
     isHouse            |-> isHouseType(c.ptype),
     isFlat             |-> isFlatType(c.ptype),
     furnished          |-> detectFurnishedStatus(Str(c.desc))]

\* the object buildFeatures returns (lines 2742-2870), c being its defaulted
\* attributes and v the values computed from them
buildFeaturesObject(d, c, v) ==
    LET beds               == c.beds
        baths              == c.baths
        postcodeDistrict   == c.postcodeDistrict
        ptype              == c.ptype
        lat                == c.lat
        lon                == c.lon
        desc               == c.desc
        ocr                == c.ocr
        agentName          == c.agentName
        pageUrl            == c.pageUrl
        address            == c.address
        sqft               == v.sqft
        tubeDist           == v.tubeDist
        centerDist         == v.centerDist
        amenities          == v.amenities
        floorsFound        == v.floorsFound
        postcodeFlags      == v.postcodeFlags
        propertyTypeOneHot == v.propertyTypeOneHot
        premiumAgent       == v.premiumAgent
        sourceQuality      == v.sourceQuality
        propertyTypeNum    == v.propertyTypeNum
        shortLet           == v.shortLet
        gardenSquare       == v.gardenSquare
        ultraPrimeAddress  == v.ultraPrimeAddress
        primeStreet        == v.primeStreet
        ensuiteEach        == v.ensuiteEach
        highBathrooms      == v.highBathrooms
        excessBaths        == v.excessBaths
        terraced           == v.terraced
        houseboat          == v.houseboat
        duplexMaisonette   == v.duplexMaisonette
        penthouse          == v.penthouse
        gardenFlat         == v.gardenFlat
        basementFlat       == v.basementFlat
        refurbKeywords     == v.refurbKeywords
        mews               == v.mews
        isHouse            == v.isHouse
        isFlat             == v.isFlat
        furnished          == v.furnished
        centerInv    == QDiv(N(1), QAdd(N(1), centerDist))
        amenityScore == SumValues(amenities, DOMAIN amenities)
        isPrime      == Flag(\E i \in 1..Len(PRIME_POSTCODES) :
                                StartsWith(postcodeDistrict, PRIME_POSTCODES[i]))
        hasOutdoor   == Flag(\/ QTruthy(Prop(amenities, "has_balcony"))
                             \/ QTruthy(Prop(amenities, "has_terrace"))
                             \/ QTruthy(Prop(amenities, "has_garden"))
                             \/ QTruthy(Prop(amenities, "has_roof_terrace")))
        premiumAmenityCount ==
            QAdd(QAdd(QAdd(Prop(amenities, "has_pool"), Prop(amenities, "has_porter")),
                      Prop(amenities, "has_gym")),
                 Prop(amenities, "has_ac"))
        postcodeFreq    == getPostcodeFreq(postcodeDistrict)
        postcodeAreaFreq == getPostcodeAreaFreq(postcodeDistrict)
        sizeBin         == getSizeBin(sqft)
        longLet         == IF QTruthy(shortLet) THEN N(0) ELSE N(1)
        addressPrestige   == getAddressPrestige(gardenSquare, ultraPrimeAddress, primeStreet)
        ppsf == IF QTruthy(d.price_pcm) THEN QDiv(d.price_pcm, sqft) ELSE QNull
        socialHousing     == isSocialHousing(address, ppsf, postcodeDistrict)
        isUltraLuxuryAddress == ultraPrimeAddress
        tiny              == isTiny(sqft)
        huge              == isHuge(sqft)
        studio            == isStudio(beds, sqft)
        isLargeHouse      == Flag(QTruthy(isHouse) /\ QLess(N(2000), sqft))
        isFurnishedExplicit == N(furnished.furnished)
        isUnfurnished     == N(furnished.unfurnished)
        isPartFurnished   == N(furnished.partFurnished)
        floorCount        == QOr(N(floorsFound.floor_count), N(1))
        floorSizeInteraction == QDiv(QMul(floorCount, sqft), N(1000))
        logSqft           == MathLog1p(sqft)
        isGroundFloor     == N(floorsFound.has_ground)
        core ==
         [bedrooms                 |-> beds,
          bathrooms                |-> baths,
          size_sqft                |-> sqft,
          size_per_bed             |-> QDiv(sqft, QMax(beds, Q(1, 2))),
          bed_bath_interaction     |-> QMul(beds, baths),
          log_sqft                 |-> logSqft,
          sqrt_sqft                |-> MathSqrt(sqft),
          size_squared             |-> QDiv(QMul(sqft, sqft), N(100000)),
          beds_squared             |-> QMul(beds, beds),
          size_bin                 |-> sizeBin,
          is_tiny                  |-> tiny,
          is_huge                  |-> huge,
          bath_ratio               |-> QDiv(baths, QMax(beds, Q(1, 2))),
          has_ensuite_each         |-> ensuiteEach,
          high_bathroom_count      |-> highBathrooms,
          excess_bathrooms         |-> excessBaths,
          tube_distance_km         |-> tubeDist,
          log_tube_distance        |-> MathLog1p(tubeDist),
          center_distance_km       |-> centerDist,
          log_center_distance      |-> MathLog1p(centerDist),
          center_distance_inv      |-> centerInv,
          is_prime_postcode        |-> isPrime,
          postcode_freq            |-> postcodeFreq,
          postcode_area_freq       |-> postcodeAreaFreq,
          is_social_housing        |-> socialHousing,
          is_ultra_luxury_address  |-> isUltraLuxuryAddress,
          is_garden_square         |-> gardenSquare,
          is_ultra_prime_address   |-> ultraPrimeAddress,
          is_prime_street          |-> primeStreet,
          address_prestige         |-> addressPrestige,
          is_mews                  |-> mews,
          is_house                 |-> isHouse,
          is_flat                  |-> isFlat,
          is_large_house           |-> isLargeHouse,
          is_terraced              |-> terraced,
          is_penthouse             |-> penthouse,
          is_studio                |-> studio,
          is_houseboat             |-> houseboat,
          is_duplex_maisonette     |-> duplexMaisonette,
          property_type_num        |-> propertyTypeNum,
          floor_count              |-> floorCount,
          is_multi_floor           |-> N(floorsFound.is_multi_floor),
          floor_size_interaction   |-> floorSizeInteraction,
          has_basement             |-> N(floorsFound.has_basement),
          has_ground               |-> N(floorsFound.has_ground),
          has_first_floor          |-> N(floorsFound.has_first_floor),
          has_second_floor         |-> N(floorsFound.has_second_floor),
          has_third_floor          |-> N(floorsFound.has_third_floor),
          has_fourth_plus          |-> N(floorsFound.has_fourth_plus),
          is_garden_flat           |-> gardenFlat,
          is_basement_flat         |-> basementFlat,
          is_ground_floor          |-> isGroundFloor,
          is_furnished_explicit    |-> isFurnishedExplicit,
          is_unfurnished           |-> isUnfurnished,
          is_part_furnished        |-> isPartFurnished,
          has_refurb_keywords      |-> refurbKeywords,
          is_long_let              |-> longLet,
          is_short_let             |-> shortLet,
          is_premium_agent         |-> premiumAgent,
          premium_agent_size       |-> QMul(premiumAgent, logSqft),
          source_quality           |-> sourceQuality,
          amenity_score            |-> amenityScore,
          premium_amenity_count    |-> premiumAmenityCount,
          has_outdoor_space        |-> hasOutdoor,
          amenity_x_central        |-> QMul(amenityScore, centerInv),
          outdoor_x_prime          |-> QMul(hasOutdoor, isPrime),
          size_x_central           |-> QDiv(QMul(sqft, centerInv), N(100)),
          size_x_prime             |-> QDiv(QMul(sqft, isPrime), N(1000)),
          beds_x_central           |-> QMul(beds, centerInv),
          garden_square_size       |-> QMul(gardenSquare, logSqft),
          ultra_prime_size         |-> QDiv(QMul(ultraPrimeAddress, sqft), N(1000)),
          prime_street_size        |-> QMul(primeStreet, logSqft),
          prestige_x_size          |-> QMul(addressPrestige, logSqft),
          house_size_interaction   |-> QMul(isHouse, logSqft),
          flat_size_interaction    |-> QMul(isFlat, logSqft),
          large_house_size         |-> QDiv(QMul(isLargeHouse, sqft), N(1000)),
          mews_size_interaction    |-> QMul(mews, logSqft),
          mews_x_prime             |-> QMul(mews, isPrime),
          furnished_x_prime        |-> QMul(isFurnishedExplicit, isPrime),
          furnished_x_central      |-> QMul(isFurnishedExplicit, centerInv),
          unfurnished_discount     |-> QMul(isUnfurnished, logSqft),
          luxury_address_size      |-> QMul(isUltraLuxuryAddress, logSqft),
          luxury_bathroom_size     |-> QMul(highBathrooms, logSqft),
          penthouse_size           |-> QMul(penthouse, logSqft),
          terraced_location        |-> QMul(terraced, isPrime),
          short_let_x_central      |-> QMul(shortLet, centerInv),
          short_let_size           |-> QMul(shortLet, logSqft)]
    IN  \* the spreads of lines 2865-2869: a later property replaces an earlier one
        AsNumbers(propertyTypeOneHot) @@ AsNumbers(postcodeFlags) @@ amenities @@ core

buildFeaturesFrom(d, c) == buildFeaturesObject(d, c, buildFeaturesDerived(d, c))

\* buildFeatures (lines 2628-2870)
buildFeatures(d) == buildFeaturesFrom(d, buildFeaturesDefaults(d))

\* ---- the inputs of buildFeatures that are enumerated

BedroomValues   == {QUndefined, N(0), N(2)}
BathroomValues  == {QUndefined, N(3)}
SizeValues      == {QUndefined, N(350)}
PostcodeValues  == {NullString, Str(<<"e", "1", " ", "6", "a", "n">>)}
TypeValues      == {NullString, Str(<<"T", "e", "r", "r", "a", "c", "e", "d", " ", "H", "o", "u", "s", "e">>)}
LatitudeValues  == {QUndefined, Q(5152, 100)}
LongitudeValues == {QUndefined, Q(-1, 10)}
AddressValues   == {NullString, Str(<<"P", "e", "a", "b", "o", "d", "y", " ", "E", "s", "t", "a", "t", "e">>), Str(<<"1", "2", " ", "E", "a", "t", "o", "n", " ", "S", "q", "u", "a", "r", "e">>)}
DescriptionValues == {NullString, Str(<<"U", "n", "f", "u", "r", "n", "i", "s", "h", "e", "d", ",", " ", "b", "a", "l", "c", "o", "n", "y", " ", "a", "n", "d", " ", "g", "y", "m">>)}
OcrValues       == {NullString, Str(<<"G", "r", "o", "u", "n", "d", " ", "F", "l", "o", "o", "r", "\n", "F", "i", "r", "s", "t", " ", "F", "l", "o", "o", "r">>)}
AgentValues     == {NullString, Str(<<"S", "a", "v", "i", "l", "l", "s">>)}
PriceValues     == {QUndefined, N(1000), N(4000)}

DataInputs ==
    [bedrooms : BedroomValues, bathrooms : BathroomValues, size_sqft : SizeValues,
     postcode : PostcodeValues, propertyType : TypeValues,
     latitude : LatitudeValues, longitude : LongitudeValues,
     address : AddressValues, description : DescriptionValues, ocrText : OcrValues,
     agentName : AgentValues, pageUrl : {NullString}, price_pcm : PriceValues]

CallBuildFeatures ==
    /\ built = NoResult
    /\ built' = buildFeatures(data)
    /\ UNCHANGED <<data, postcodeVars, floorVars, furnishedVars, resultVars, extVars,
                   predictorVars, loadVars, clientVars, pageVars, evalVars, typeVars>>

InitBuild ==
    /\ data \in DataInputs
    /\ built = NoResult
    /\ PostcodeIdle /\ FloorsIdle /\ FurnishedIdle /\ ResultIdle /\ ExtIdle
    /\ PredictorFresh /\ LoadIdle /\ loadOK = FALSE
    /\ ClientIdle /\ PageIdle /\ EvalIdle /\ TypeIdle

NextBuild == CallBuildFeatures

SpecBuild == InitBuild /\ [][NextBuild]_vars

\* (a) the address matches a known-estate pattern
AddressOnKnownEstate ==
    /\ ~data.address.isNull
    /\ \E i \in 1..Len(SOCIAL_ESTATE_PATTERNS) :
          RegexTestI(data.address.chars, SOCIAL_ESTATE_PATTERNS[i])

\* the district of the input's postcode, 'SW3' when the postcode is absent
DataDistrict == extractPostcodeDistrict(Str(StrOr(data.postcode, <<"S", "W", "3">>)))

\* (b) the district starts with a premium prefix and price / size is below 3.5
PremiumDistrictLowPrice ==
    /\ \E i \in 1..Len(PREMIUM_POSTCODES_SOCIAL) :
          StartsWith(DataDistrict, PREMIUM_POSTCODES_SOCIAL[i])
    /\ data.price_pcm.t = "num"
    /\ built.size_sqft.t = "num"
    /\ built.size_sqft.n > 0
    /\ 10 * data.price_pcm.n * built.size_sqft.d
           < 35 * built.size_sqft.n * data.price_pcm.d

\* C15: is_social_housing is 1 exactly when (a) the address matches a known-estate
\* pattern or (b) the postcode district starts with a premium prefix and the price
\* per square foot is below 3.5; (b) alone suffices, whatever the address is.
SocialHousingEitherCondition ==
    built # NoResult =>
        /\ built.is_social_housing \in {N(0), N(1)}
        /\ built.is_social_housing = N(1)
               <=> (AddressOnKnownEstate \/ PremiumDistrictLowPrice)

AmenitySignals ==
    {"has_balcony", "has_terrace", "has_roof_terrace", "has_garden", "has_porter",
     "has_gym", "has_pool", "has_parking", "has_lift", "has_ac", "has_high_ceilings",
     "has_view", "has_modern", "has_period", "has_furnished"}

\* C16: for every input with any subset of its attributes absent or empty,
\* buildFeatures returns a vector all of whose values are finite numbers; every
\* amenity signal is 0 or 1 and every amenity-derived count is a number, also for
\* an empty description.
BuildFeaturesAllFinite ==
    built # NoResult =>
        /\ \A k \in DOMAIN built : IsFiniteNumber(built[k])
        /\ \A k \in AmenitySignals : k \in DOMAIN built /\ built[k] \in {N(0), N(1)}
        /\ IsFiniteNumber(built.amenity_score)
        /\ IsFiniteNumber(built.premium_amenity_count)
        /\ built.has_outdoor_space \in {N(0), N(1)}

\* a numeric attribute is absent
Absent(x) == x.t \in {"undefined", "null"}

\* C17: buildFeatures substitutes a default only for an absent attribute: bedrooms
\* 1, bathrooms 1, size_sqft = bedrooms x 450, the fixed district, type 'flat', the
\* reference point; a supplied value is used as given, including bedrooms = 0,
\* for which size_per_bed and bath_ratio use the 0.5-bedroom floor.
DefaultsOnlyWhenAbsent ==
    built # NoResult =>
        LET beds  == IF Absent(data.bedrooms) THEN N(1) ELSE data.bedrooms
            baths == IF Absent(data.bathrooms) THEN N(1) ELSE data.bathrooms
            sqft  == IF Absent(data.size_sqft) THEN QMul(beds, N(450)) ELSE data.size_sqft
            floorBeds == IF QLess(beds, Q(1, 2)) THEN Q(1, 2) ELSE beds
        IN  /\ built.bedrooms = beds
            /\ built.bathrooms = baths
            /\ built.size_sqft = sqft
            /\ built.size_per_bed = QDiv(sqft, floorBeds)
            /\ built.bath_ratio = QDiv(baths, floorBeds)
            /\ data.postcode.isNull => built.pc_SW3 = N(1)
            /\ data.propertyType.isNull => built.type_flat = N(1)
            /\ (Absent(data.latitude) /\ Absent(data.longitude)) =>
                  built.center_distance_km = N(0)
            /\ (~Absent(data.latitude) /\ ~Absent(data.longitude)) =>
                  built.center_distance_km =
                      haversine(data.latitude, data.longitude,
                                CITY_CENTER.lat, CITY_CENTER.lon)

-----------------------------------------------------------------------------
(* The result of analyzeProperty: fair value, range and premium (lines       *)
(* 450-474), and what init does with it (lines 298-335). The predicted       *)
(* log-rent is drawn from the values predict can hand back; numbers are the  *)
(* exact fractions of the buildFeatures section.                             *)

\* -0, which Math.round returns for an argument in [-0.5, 0)
QNegZero == [t |-> "negzero", n |-> 0, d |-> 1]

\* predict throwing 'Model not loaded' instead of returning a number
Throws == [t |-> "throws", n |-> 0, d |-> 1]

\* the rejection of analyzeProperty seen by init
Rejected == [rejected |-> TRUE]

\* what init has put into the sidebar
ErrorShown == [error |-> <<"S", "o", "m", "e", "t", "h", "i", "n", "g", " ", "w", "e", "n", "t", " ", "w", "r", "o", "n", "g">>]

\* Math.round(Math.expm1(x)) on the predicted log-rents that are enumerated
Expm1RoundTable ==
    << [x |-> Q(-7000, 10000), y |-> N(-1)],
       [x |-> Q(-5000, 10000), y |-> QNegZero],
       [x |-> Q(0, 10000), y |-> N(0)],
       [x |-> Q(4000, 10000), y |-> N(0)],
       [x |-> Q(6931, 10000), y |-> N(1)],
       [x |-> Q(10986, 10000), y |-> N(2)],
       [x |-> Q(13863, 10000), y |-> N(3)],
       [x |-> Q(39318, 10000), y |-> N(50)],
       [x |-> Q(43944, 10000), y |-> N(80)],
       [x |-> Q(46052, 10000), y |-> N(99)],
       [x |-> Q(46151, 10000), y |-> N(100)],
       [x |-> Q(46250, 10000), y |-> N(101)],
       [x |-> Q(50173, 10000), y |-> N(150)],
       [x |-> Q(69088, 10000), y |-> N(1000)],
       [x |-> Q(76014, 10000), y |-> N(2000)],
       [x |-> Q(80064, 10000), y |-> N(2999)],
       [x |-> Q(80067, 10000), y |-> N(3000)],
       [x |-> Q(80070, 10000), y |-> N(3001)],
       [x |-> Q(81608, 10000), y |-> N(3500)],
       [x |-> Q(82943, 10000), y |-> N(4000)],
       [x |-> Q(7100000, 10000), y |-> QInfinity(1)] >>

MathRoundExpm1(x) ==
    IF x.t = "nan" \/ x.t = "undefined" THEN QNaN
    ELSE (CHOOSE e \in {Expm1RoundTable[i] : i \in 1..Len(Expm1RoundTable)} : e.x = x).y

\* Math.round(n / d) for integers n and d > 0, the quotient being exact:
\* the nearest integer, a tie going up, and -0 for a quotient in [-0.5, 0)
MathRound(n, d) ==
    LET r == (2 * n + d) \div (2 * d)
    IN  IF r = 0 /\ n < 0 THEN QNegZero ELSE N(r)

\* Math.round of a quotient of doubles that is n / d only up to the rounding
\* of the division: at an exact tie the double lies on either side of it
MathRoundEither(n, d) ==
    IF (2 * n + d) % (2 * d) = 0
    THEN {MathRound(n, d), MathRound(n - d, d)}
    ELSE {MathRound(n, d)}

\* x / 10 for a rounded x
DivideByTen(x) ==
    IF x.t = "num" THEN Q(x.n, 10) ELSE x

\* range_low with Math.floor instead of Math.round
range_lowFloor(fairValue) ==
    CASE fairValue.t = "num" -> N((79 * fairValue.n) \div 100)
      [] OTHER               -> fairValue

\* Math.round(fairValue * 0.79) (line 465)
range_low(fairValue) ==
    CASE fairValue.t = "num" -> MathRound(79 * fairValue.n, 100)
      [] OTHER               -> fairValue

\* Math.round(fairValue * 1.21) (line 466)
range_high(fairValue) ==
    CASE fairValue.t = "num" -> MathRound(121 * fairValue.n, 100)
      [] OTHER               -> fairValue

\* premiumPct cut off after the first decimal instead of rounded
premiumPctTruncated(price, fairValue) ==
    CASE fairValue.t = "num" /\ fairValue.n > 0 ->
             {Q((1000 * (price - fairValue.n)) \div fairValue.n, 10)}
      [] OTHER -> {QNaN}

\* Math.round((askingPrice / fairValue - 1) * 100 * 10) / 10 (line 453), the
\* values the expression can have for a positive integer askingPrice
premiumPct(price, fairValue) ==
    CASE fairValue.t = "nan"     -> {QNaN}
      [] fairValue.t = "inf"     -> {N(-100)}
      [] fairValue.t = "negzero" -> {QInfinity(-1)}
      [] fairValue.n = 0         -> {QInfinity(1)}
      [] fairValue.n > 0         ->
             {DivideByTen(x) : x \in MathRoundEither(1000 * (price - fairValue.n), fairValue.n)}
      [] OTHER                   ->
             {DivideByTen(x) : x \in MathRoundEither(1000 * (fairValue.n - price), -fairValue.n)}

\* the asking prices parsePrice hands to analyzeProperty: positive integers
AskingPrices == {2001, 2370, 3000, 3500, 3630, 4000}

\* what xgbPredictor.predict does: a log-rent, NaN, or the exception
PredLogs ==
    { Q(-7000, 10000),
      Q(-5000, 10000),
      Q(0, 10000),
      Q(4000, 10000),
      Q(6931, 10000),
      Q(10986, 10000),
      Q(13863, 10000),
      Q(39318, 10000),
      Q(43944, 10000),
      Q(46052, 10000),
      Q(46151, 10000),
      Q(46250, 10000),
      Q(50173, 10000),
      Q(69088, 10000),
      Q(76014, 10000),
      Q(80064, 10000),
      Q(80067, 10000),
      Q(80070, 10000),
      Q(81608, 10000),
      Q(82943, 10000),
      Q(7100000, 10000),
      QNaN, Throws }

\* analyzeProperty from line 450 on: the object it returns. The remaining
\* fields of the object are copies of the page data and are left out.
AnalyzeProperty ==
    /\ result = NoResult
    /\ predLog # Throws
    /\ LET fairValue == MathRoundExpm1(predLog)
       IN  \E premium \in premiumPct(askingPrice, fairValue) :
               result' = [asking_price |-> N(askingPrice),
                          fair_value   |-> fairValue,
                          range_low    |-> range_low(fairValue),
                          range_high   |-> range_high(fairValue),
                          premium_pct  |-> premium]
    /\ UNCHANGED <<askingPrice, predLog, displayed>>
    /\ UNCHANGED <<predictorVars, loadVars, clientVars, pageVars, evalVars,
                   typeVars, featureVars, extVars>>

\* analyzeProperty when predict throws: the promise is rejected
AnalyzePropertyThrows ==
    /\ result = NoResult
    /\ predLog = Throws
    /\ result' = Rejected
    /\ UNCHANGED <<askingPrice, predLog, displayed>>
    /\ UNCHANGED <<predictorVars, loadVars, clientVars, pageVars, evalVars,
                   typeVars, featureVars, extVars>>

\* init after the await of line 298: displayResult(result, result.size_source)
DisplayResult ==
    /\ result # NoResult
    /\ result # Rejected
    /\ displayed = NoResult
    /\ displayed' = result
    /\ UNCHANGED <<askingPrice, predLog, result>>
    /\ UNCHANGED <<predictorVars, loadVars, clientVars, pageVars, evalVars,
                   typeVars, featureVars, extVars>>

\* the catch of init (lines 327-335): injectError('Something went wrong')
InitCatch ==
    /\ result = Rejected
    /\ displayed = NoResult
    /\ displayed' = ErrorShown
    /\ UNCHANGED <<askingPrice, predLog, result>>
    /\ UNCHANGED <<predictorVars, loadVars, clientVars, pageVars, evalVars,
                   typeVars, featureVars, extVars>>

InitResult ==
    /\ PredictorFresh /\ LoadIdle /\ loadOK = FALSE
    /\ ClientIdle /\ PageIdle /\ EvalIdle /\ TypeIdle
    /\ FeaturesIdle /\ ExtIdle
    /\ askingPrice \in AskingPrices
    /\ predLog \in PredLogs
    /\ result = NoResult
    /\ displayed = NoResult

NextResult ==
    \/ AnalyzeProperty
    \/ AnalyzePropertyThrows
    \/ DisplayResult
    \/ InitCatch

SpecResult == InitResult /\ [][NextResult]_vars

\* a result whose fair value is a positive integer
PositiveFairValue(r) ==
    /\ "fair_value" \in DOMAIN r
    /\ r.fair_value.t = "num"
    /\ r.fair_value.n > 0

\* x is an integer nearest to n / 100
NearestHundredth(x, n) ==
    /\ x.t = "num"
    /\ x.d = 1
    /\ 2 * Abs(100 * x.n - n) <= 100

\* C18: for every positive integer fair value the returned range_low is
\* fair value x 0.79 rounded to an integer and range_high is fair value x 1.21
\* rounded to an integer, so range_low <= fair_value <= range_high; a fair
\* value of 3000 gives 2370 and 3630
RangeIsRoundedBand ==
    PositiveFairValue(result) =>
        /\ NearestHundredth(result.range_low, 79 * result.fair_value.n)
        /\ NearestHundredth(result.range_high, 121 * result.fair_value.n)
        /\ result.range_low.n <= result.fair_value.n
        /\ result.fair_value.n <= result.range_high.n
        /\ result.fair_value = N(3000) =>
               result.range_low = N(2370) /\ result.range_high = N(3630)

\* C18 witness: a result with fair value 3000 has been returned, its range
\* being 2370 to 3630
RangeIsRoundedBandWitness ==
    /\ PositiveFairValue(result)
    /\ result.fair_value = N(3000)
    /\ result.range_low = N(2370)
    /\ result.range_high = N(3630)

\* C19: for a positive asking price and a positive fair value premium_pct is
\* (askingPrice / fairValue - 1) x 100 rounded to one decimal place: it is a
\* number of tenths at most half a tenth away from the exact percentage; 3500
\* against 3000 gives 16.7 and equal prices give 0
PremiumIsRoundedPercentage ==
    PositiveFairValue(result) =>
        LET f == result.fair_value.n
            p == result.premium_pct
        IN  /\ p.t \in {"num", "negzero"}
            /\ 10 % p.d = 0
            /\ 2 * Abs((10 \div p.d) * p.n * f - 1000 * (askingPrice - f)) <= f
            /\ (askingPrice = 3500 /\ f = 3000) => p = Q(167, 10)
            /\ askingPrice = f => p = N(0)

\* C19 witness: the result for an asking price of 3500 and a fair value of
\* 3000 has been returned with a premium of 16.7
PremiumIsRoundedPercentageWitness ==
    /\ PositiveFairValue(result)
    /\ askingPrice = 3500
    /\ result.fair_value = N(3000)
    /\ result.premium_pct = Q(167, 10)

\* a returned or displayed result that is valid: its fair value is a finite
\* number other than 0 and its premium is a finite number
ValidResult(r) ==
    "fair_value" \in DOMAIN r =>
        /\ r.fair_value.t = "num"
        /\ r.fair_value.n # 0
        /\ r.premium_pct.t \in {"num", "negzero"}

\* C20: a fair value of 0, NaN or infinity makes the prediction fail with an
\* error: no result with a fair value of 0 or a non-finite premium_pct is
\* returned to init or displayed
InvalidFairValueIsRejected ==
    /\ ValidResult(result)
    /\ ValidResult(displayed)

-----------------------------------------------------------------------------
(* SPA navigation detection and the init runs it starts (content.js 97-336). *)
(* The page changes window.location.href; handleUrlChange runs from the      *)
(* History wrappers, from popstate or from the polling timer; each init run  *)
(* is followed from its guard over its awaits to the sidebar it leaves.      *)

\* URL changes of the page that are followed
MaxUrlChanges == 3

\* const SITES (lines 90-95)
SITES == [RIGHTMOVE |-> "rightmove", KNIGHTFRANK |-> "knightfrank",
          CHESTERTONS |-> "chestertons", SAVILLS |-> "savills"]

\* window.location.hostname of an https URL
Hostname(url) ==
    LET rest == SubSeq(url, 9, Len(url))
        i    == IndexOf(rest, <<"/">>)
    IN  IF i = 0 THEN rest ELSE SubSeq(rest, 1, i - 1)

\* detectSite (lines 97-104)
detectSite(hostname) ==
    IF Includes(hostname, <<"r", "i", "g", "h", "t", "m", "o", "v", "e", ".", "c", "o", ".", "u", "k">>) THEN SITES.RIGHTMOVE
    ELSE IF Includes(hostname, <<"k", "n", "i", "g", "h", "t", "f", "r", "a", "n", "k", ".", "c", "o", ".", "u", "k">>) THEN SITES.KNIGHTFRANK
    ELSE IF Includes(hostname, <<"c", "h", "e", "s", "t", "e", "r", "t", "o", "n", "s", ".", "c", "o", ".", "u", "k">>) THEN SITES.CHESTERTONS
    ELSE IF Includes(hostname, <<"s", "a", "v", "i", "l", "l", "s", ".", "c", "o", "m">>) THEN SITES.SAVILLS
    ELSE "null"

\* /PREFIX\d+SUFFIX/.test(url)
TestDigitsBetween(url, prefix, suffix) ==
    \E i \in 1..Len(url), n \in 1..Len(url) :
        /\ i + Len(prefix) + n + Len(suffix) - 1 <= Len(url)
        /\ SubSeq(url, i, i + Len(prefix) - 1) = prefix
        /\ \A j \in (i + Len(prefix))..(i + Len(prefix) + n - 1) : IsDigit(url[j])
        /\ SubSeq(url, i + Len(prefix) + n, i + Len(prefix) + n + Len(suffix) - 1) = suffix

\* isPropertyPage (lines 207-221)
isPropertyPage(site, url) ==
    CASE site = SITES.RIGHTMOVE   -> TestDigitsBetween(url, <<"/", "p", "r", "o", "p", "e", "r", "t", "i", "e", "s", "/">>, <<>>)
      [] site = SITES.KNIGHTFRANK -> Includes(url, <<"/", "p", "r", "o", "p", "e", "r", "t", "i", "e", "s", "/">>) /\ ~Includes(url, <<"/", "s", "e", "a", "r", "c", "h">>)
      [] site = SITES.CHESTERTONS -> TestDigitsBetween(url, <<"/", "p", "r", "o", "p", "e", "r", "t", "i", "e", "s", "/">>, <<"/", "l", "e", "t", "t", "i", "n", "g", "s", "/">>)
      [] site = SITES.SAVILLS     -> Includes(url, <<"/", "p", "r", "o", "p", "e", "r", "t", "y", "-", "d", "e", "t", "a", "i", "l", "/">>)
      [] OTHER                    -> FALSE

\* url.split('#')[0]
BaseOf(url) == SplitOn(url, "#")[1]

\* the pages of the four sites that are visited: two listings and one other page each
PageUrls ==
    << [site |-> "rightmove",
        url  |-> <<"h", "t", "t", "p", "s", ":", "/", "/", "w", "w", "w", ".", "r", "i", "g", "h", "t", "m", "o", "v", "e", ".", "c", "o", ".", "u", "k", "/", "p", "r", "o", "p", "e", "r", "t", "i", "e", "s", "/", "1">>],
       [site |-> "rightmove",
        url  |-> <<"h", "t", "t", "p", "s", ":", "/", "/", "w", "w", "w", ".", "r", "i", "g", "h", "t", "m", "o", "v", "e", ".", "c", "o", ".", "u", "k", "/", "p", "r", "o", "p", "e", "r", "t", "i", "e", "s", "/", "2">>],
       [site |-> "rightmove",
        url  |-> <<"h", "t", "t", "p", "s", ":", "/", "/", "w", "w", "w", ".", "r", "i", "g", "h", "t", "m", "o", "v", "e", ".", "c", "o", ".", "u", "k", "/", "p", "r", "o", "p", "e", "r", "t", "y", "-", "t", "o", "-", "r", "e", "n", "t", "/", "f", "i", "n", "d", ".", "h", "t", "m", "l">>],
       [site |-> "knightfrank",
        url  |-> <<"h", "t", "t", "p", "s", ":", "/", "/", "w", "w", "w", ".", "k", "n", "i", "g", "h", "t", "f", "r", "a", "n", "k", ".", "c", "o", ".", "u", "k", "/", "p", "r", "o", "p", "e", "r", "t", "i", "e", "s", "/", "t", "o", "-", "l", "e", "t", "/", "a", "1">>],
       [site |-> "knightfrank",
        url  |-> <<"h", "t", "t", "p", "s", ":", "/", "/", "w", "w", "w", ".", "k", "n", "i", "g", "h", "t", "f", "r", "a", "n", "k", ".", "c", "o", ".", "u", "k", "/", "p", "r", "o", "p", "e", "r", "t", "i", "e", "s", "/", "t", "o", "-", "l", "e", "t", "/", "b", "2">>],
       [site |-> "knightfrank",
        url  |-> <<"h", "t", "t", "p", "s", ":", "/", "/", "w", "w", "w", ".", "k", "n", "i", "g", "h", "t", "f", "r", "a", "n", "k", ".", "c", "o", ".", "u", "k", "/", "s", "e", "a", "r", "c", "h", "/", "t", "o", "-", "l", "e", "t">>],
       [site |-> "chestertons",
        url  |-> <<"h", "t", "t", "p", "s", ":", "/", "/", "w", "w", "w", ".", "c", "h", "e", "s", "t", "e", "r", "t", "o", "n", "s", ".", "c", "o", ".", "u", "k", "/", "p", "r", "o", "p", "e", "r", "t", "i", "e", "s", "/", "1", "/", "l", "e", "t", "t", "i", "n", "g", "s", "/", "K", "1">>],
       [site |-> "chestertons",
        url  |-> <<"h", "t", "t", "p", "s", ":", "/", "/", "w", "w", "w", ".", "c", "h", "e", "s", "t", "e", "r", "t", "o", "n", "s", ".", "c", "o", ".", "u", "k", "/", "p", "r", "o", "p", "e", "r", "t", "i", "e", "s", "/", "2", "/", "l", "e", "t", "t", "i", "n", "g", "s", "/", "K", "2">>],
       [site |-> "chestertons",
        url  |-> <<"h", "t", "t", "p", "s", ":", "/", "/", "w", "w", "w", ".", "c", "h", "e", "s", "t", "e", "r", "t", "o", "n", "s", ".", "c", "o", ".", "u", "k", "/", "p", "r", "o", "p", "e", "r", "t", "i", "e", "s", "/", "l", "e", "t", "t", "i", "n", "g", "s">>],
       [site |-> "savills",
        url  |-> <<"h", "t", "t", "p", "s", ":", "/", "/", "s", "e", "a", "r", "c", "h", ".", "s", "a", "v", "i", "l", "l", "s", ".", "c", "o", "m", "/", "p", "r", "o", "p", "e", "r", "t", "y", "-", "d", "e", "t", "a", "i", "l", "/", "a", "1">>],
       [site |-> "savills",
        url  |-> <<"h", "t", "t", "p", "s", ":", "/", "/", "s", "e", "a", "r", "c", "h", ".", "s", "a", "v", "i", "l", "l", "s", ".", "c", "o", "m", "/", "p", "r", "o", "p", "e", "r", "t", "y", "-", "d", "e", "t", "a", "i", "l", "/", "b", "2">>],
       [site |-> "savills",
        url  |-> <<"h", "t", "t", "p", "s", ":", "/", "/", "s", "e", "a", "r", "c", "h", ".", "s", "a", "v", "i", "l", "l", "s", ".", "c", "o", "m", "/", "l", "i", "s", "t", "/", "t", "o", "-", "l", "e", "t">>] >>

\* the fragment a lightbox adds to the URL of a page
LightboxFragment == <<"#", "/", "f", "l", "o", "o", "r", "p", "l", "a", "n">>

\* the URLs window.location.href takes on a site: its pages, and the first listing
\* with the lightbox open
SiteUrls(site) ==
    LET pages == {PageUrls[i].url : i \in {j \in 1..Len(PageUrls) : PageUrls[j].site = site}}
        first == PageUrls[CHOOSE i \in 1..Len(PageUrls) :
                              /\ PageUrls[i].site = site
                              /\ \A j \in 1..(i - 1) : PageUrls[j].site # site].url
    IN  pages \cup {first \o LightboxFragment}

\* init runs that are followed, one slot per run
RunSlots == 1..MaxRuns

\* a run suspended at an await that yields to the event loop
ActiveRuns == {k \in RunSlots : runPc[k] \in {"ocr", "load"}}

\* injectLoadingState / injectError / injectShortLetWarning / displayResult write the
\* sidebar from the propertyData of the run that calls them (lines 1710-1763);
\* removeExisting (lines 1698-1700) leaves none
Inject(content, url) ==
    /\ sidebar' = content
    /\ sidebarFor' = IF content = "none" THEN <<>> ELSE url

\* `isRunning = true` (line 232) as it stands while the run waits at an await
initSuspendUnflagged(k, at, url) ==
    /\ runPc' = [runPc EXCEPT ![k] = at]
    /\ Inject("loading", url)
    /\ isRunning' = isRunning

initSuspend(k, at, url) ==
    /\ runPc' = [runPc EXCEPT ![k] = at]
    /\ Inject("loading", url)
    /\ isRunning' = TRUE

\* an exit path of init that forgets `isRunning = false` when the price does not parse
initEndStuck(k, how, content, url) ==
    /\ runPc' = [runPc EXCEPT ![k] = how]
    /\ Inject(content, url)
    /\ isRunning' = (how = "priceError")

\* the exit paths of init: lines 243-248, 257-263, 270-275, 324-326 and the catch 327-335
initEnd(k, how, content, url) ==
    /\ runPc' = [runPc EXCEPT ![k] = how]
    /\ Inject(content, url)
    /\ isRunning' = FALSE

\* analyzeProperty from line 424 on: load the model if there is no predictor yet,
\* else predict (which throws unless the predictor is loaded) and display
analyzeFromModel(k, url) ==
    IF ~xgbPredictor
    THEN /\ xgbPredictor' = TRUE
         /\ initSuspend(k, "load", url)
         /\ UNCHANGED loaded
    ELSE /\ IF loaded
            THEN initEnd(k, "result", "result", url)
            ELSE initEnd(k, "errorPredict", "error: Something went wrong", url)
         /\ UNCHANGED <<xgbPredictor, loaded>>

\* what extractPropertyData, extractLetType, parsePrice and the floorplan lookup find
\* on the page the run reads
PageFindings == {"noData", "extractionThrows", "shortLet", "priceUnparsable",
                 "floorplan", "noFloorplan"}

\* init (lines 226-336) from its guard to its first await that yields
init ==
    IF isRunning
    THEN UNCHANGED <<isRunning, sidebar, sidebarFor, runs, runPc, runFor,
                     xgbPredictor, loaded>>
    ELSE /\ runs < MaxRuns
         /\ runs' = runs + 1
         /\ runFor' = [runFor EXCEPT ![runs + 1] = BaseOf(href)]
         /\ \E found \in PageFindings :
              LET k   == runs + 1
                  url == BaseOf(href)
              IN  CASE found = "noData" ->
                         /\ initEnd(k, "noData", "none", url)
                         /\ UNCHANGED <<xgbPredictor, loaded>>
                    [] found = "extractionThrows" ->
                         /\ initEnd(k, "errorExtract", "error: Something went wrong", url)
                         /\ UNCHANGED <<xgbPredictor, loaded>>
                    [] found = "shortLet" ->
                         /\ initEnd(k, "shortLet", "shortLetWarning", url)
                         /\ UNCHANGED <<xgbPredictor, loaded>>
                    [] found = "priceUnparsable" ->
                         /\ initEnd(k, "priceError", "error: Could not parse price", url)
                         /\ UNCHANGED <<xgbPredictor, loaded>>
                    [] found \in {"floorplan", "noFloorplan"}
                         /\ currentSite \in {SITES.CHESTERTONS, SITES.SAVILLS} ->
                         \* line 365 calls getPropertyId, which is defined nowhere:
                         \* the ReferenceError rejects analyzeProperty
                         /\ initEnd(k, "errorReference", "error: Something went wrong", url)
                         /\ UNCHANGED <<xgbPredictor, loaded>>
                    [] found = "floorplan"
                         /\ currentSite \notin {SITES.CHESTERTONS, SITES.SAVILLS} ->
                         /\ initSuspend(k, "ocr", url)
                         /\ UNCHANGED <<xgbPredictor, loaded>>
                    [] found = "noFloorplan"
                         /\ currentSite \notin {SITES.CHESTERTONS, SITES.SAVILLS} ->
                         analyzeFromModel(k, url)

\* handleUrlChange without the comparison of the URLs before their fragments
handleUrlChangeAnyChange(newUrl) ==
    IF newUrl = lastUrl
    THEN UNCHANGED <<lastUrl, floorplanClickedForProperty, navEvents, timers,
                     sidebar, sidebarFor>>
    ELSE /\ lastUrl' = newUrl
         /\ floorplanClickedForProperty' = Null
         /\ navEvents' = navEvents + 1
         /\ IF ~isPropertyPage(currentSite, newUrl)
            THEN Inject("none", <<>>) /\ UNCHANGED timers
            ELSE timers' = timers + 1 /\ UNCHANGED <<sidebar, sidebarFor>>

\* handleUrlChange (lines 168-205)
handleUrlChange(newUrl) ==
    IF newUrl = lastUrl
    THEN UNCHANGED <<lastUrl, floorplanClickedForProperty, navEvents, timers,
                     sidebar, sidebarFor>>
    ELSE IF BaseOf(lastUrl) = BaseOf(newUrl)
    THEN /\ lastUrl' = newUrl
         /\ UNCHANGED <<floorplanClickedForProperty, navEvents, timers,
                        sidebar, sidebarFor>>
    ELSE /\ lastUrl' = newUrl
         /\ floorplanClickedForProperty' = Null
         /\ navEvents' = navEvents + 1
         /\ IF ~isPropertyPage(currentSite, newUrl)
            THEN Inject("none", <<>>) /\ UNCHANGED timers
            ELSE timers' = timers + 1 /\ UNCHANGED <<sidebar, sidebarFor>>

navOther == <<predictorVars, loadVars, clientVars, evalVars, typeVars, featureVars,
              resultVars, anaVars, ocrVars>>

\* the top level of the content script has run up to `init()` (line 127)
ScriptLoaded == runs > 0

\* `init();` at line 127
ScriptStart ==
    /\ runs = 0
    /\ init
    /\ model' = model /\ features' = features
    /\ UNCHANGED <<initPc, runLoadCalled, currentSite, href, lastUrl,
                   floorplanClickedForProperty, timers, navEvents, urlChanges>>
    /\ UNCHANGED <<loadVars, clientVars, evalVars, typeVars, featureVars, resultVars, anaVars, ocrVars>>

\* a history traversal, or a History call the wrappers see: the URL changes and
\* handleUrlChange runs at once (lines 139-156)
HistoryChange(u) ==
    /\ ScriptLoaded
    /\ urlChanges < MaxUrlChanges
    /\ u # href
    /\ href' = u
    /\ urlChanges' = urlChanges + 1
    /\ handleUrlChange(u)
    /\ UNCHANGED <<currentSite, runPc, runFor, xgbPredictor, isRunning, initPc, runs,
                   runLoadCalled>>
    /\ UNCHANGED navOther

\* the page changes its URL without the content script being called
SilentChange(u) ==
    /\ ScriptLoaded
    /\ urlChanges < MaxUrlChanges
    /\ u # href
    /\ href' = u
    /\ urlChanges' = urlChanges + 1
    /\ UNCHANGED <<currentSite, lastUrl, floorplanClickedForProperty, timers, navEvents,
                   runPc, runFor, sidebarFor, pageVars>>
    /\ UNCHANGED navOther

\* the polling fallback (lines 159-163)
PollUrl ==
    /\ ScriptLoaded
    /\ href # lastUrl
    /\ handleUrlChange(href)
    /\ UNCHANGED <<currentSite, href, urlChanges, runPc, runFor, xgbPredictor, isRunning,
                   initPc, runs, runLoadCalled>>
    /\ UNCHANGED navOther

\* the callback of setTimeout at lines 199-203
TimerFires ==
    /\ timers > 0
    /\ timers' = timers - 1
    /\ IF ~isRunning
       THEN init
       ELSE UNCHANGED <<isRunning, sidebar, sidebarFor, runs, runPc, runFor,
                        xgbPredictor, loaded>>
    /\ model' = model /\ features' = features
    /\ UNCHANGED <<initPc, runLoadCalled, currentSite, href, lastUrl,
                   floorplanClickedForProperty, navEvents, urlChanges>>
    /\ UNCHANGED <<loadVars, clientVars, evalVars, typeVars, featureVars, resultVars, anaVars, ocrVars>>

\* the logger of the Tesseract worker reports progress (lines 1437-1441)
OcrProgress(k) ==
    /\ runPc[k] = "ocr"
    /\ Inject("loading", runFor[k])
    /\ UNCHANGED <<currentSite, href, lastUrl, floorplanClickedForProperty,
                   timers, navEvents, urlChanges, runPc, runFor, xgbPredictor, isRunning, initPc, runs,
                   runLoadCalled>>
    /\ UNCHANGED navOther

\* `await ocrFloorplan(floorplanUrl)` resumes (line 406)
OcrSettles(k) ==
    /\ runPc[k] = "ocr"
    /\ analyzeFromModel(k, runFor[k])
    /\ model' = model /\ features' = features
    /\ UNCHANGED <<initPc, runs, runLoadCalled, currentSite, href, lastUrl,
                   floorplanClickedForProperty, timers, navEvents, urlChanges, runFor>>
    /\ UNCHANGED <<loadVars, clientVars, evalVars, typeVars, featureVars, resultVars, anaVars, ocrVars>>

\* `await xgbPredictor.load(...)` resumes (line 428): loaded, or rejected into the catch
LoadSettles(k) ==
    /\ runPc[k] = "load"
    /\ \/ /\ loaded' = TRUE
          /\ initEnd(k, "result", "result", runFor[k])
       \/ /\ loaded' = loaded
          /\ initEnd(k, "errorLoad", "error: Something went wrong", runFor[k])
    /\ model' = model /\ features' = features
    /\ UNCHANGED <<xgbPredictor, initPc, runs, runLoadCalled, currentSite, href, lastUrl,
                   floorplanClickedForProperty, timers, navEvents, urlChanges, runFor>>
    /\ UNCHANGED <<loadVars, clientVars, evalVars, typeVars, featureVars, resultVars, anaVars, ocrVars>>

InitNav ==
    /\ model = NullModel /\ features = NullFeatures /\ loaded = FALSE
    /\ LoadIdle /\ loadOK = FALSE
    /\ ClientIdle /\ PageIdle /\ EvalIdle /\ TypeIdle /\ FeaturesIdle /\ ResultIdle
    /\ AnaIdle /\ OcrIdle
    /\ \E i \in 1..Len(PageUrls) :
          /\ href = PageUrls[i].url
          /\ currentSite = detectSite(Hostname(PageUrls[i].url))
    /\ lastUrl = href
    /\ floorplanClickedForProperty = Null
    /\ timers = 0
    /\ navEvents = 0
    /\ urlChanges = 0
    /\ runPc = [k \in RunSlots |-> "unused"]
    /\ runFor = [k \in RunSlots |-> <<>>]
    /\ sidebarFor = <<>>

RunStep == \E k \in RunSlots : OcrSettles(k) \/ LoadSettles(k)

NextNav ==
    \/ ScriptStart
    \/ \E u \in SiteUrls(currentSite) : HistoryChange(u)
    \/ \E u \in SiteUrls(currentSite) : SilentChange(u)
    \/ PollUrl
    \/ TimerFires
    \/ \E k \in RunSlots : OcrProgress(k)
    \/ \E k \in RunSlots : OcrSettles(k)
    \/ \E k \in RunSlots : LoadSettles(k)

SpecNav == InitNav /\ [][NextNav]_vars

\* the awaited operations of a run settle
SpecNavFair == SpecNav /\ WF_vars(RunStep)

\* the ways analyzeProperty rejects into the catch of init (lines 327-335)
AnalyzeErrors == {"errorReference", "errorLoad", "errorPredict"}

\* C22: on each of the four sites, an init run whose property data is extracted, is
\* no short let and has a price that parses ends displaying a valuation result unless
\* the model fails to load: no such run ends in 'Something went wrong' for any other
\* reason.
ValuationOnEverySite ==
    \A k \in RunSlots :
        runPc[k] \in AnalyzeErrors => runPc[k] \in {"errorLoad", "errorPredict"}

\* C23: at most one init run is in progress at any time, and the timer callback that
\* finds isRunning set starts no run and changes nothing but the pending timers.
OneInitRunAtATime ==
    /\ [](Cardinality(ActiveRuns) <= 1)
    /\ [][(isRunning /\ timers' < timers) =>
              UNCHANGED <<isRunning, sidebar, sidebarFor, runs, runPc, runFor,
                          xgbPredictor, loaded>>]_vars

\* C23 witness: the timer of a navigation to a listing has fired while the first run
\* was still in progress, and no second run was started.
TimerFiredDuringRun ==
    /\ isRunning
    /\ Cardinality(ActiveRuns) = 1
    /\ runs = 1
    /\ navEvents = 1
    /\ timers = 0
    /\ isPropertyPage(currentSite, lastUrl)

\* C24: isRunning is set exactly while an init run is in progress, and, the awaited
\* operations settling, every run that set it eventually clears it.
IsRunningAlwaysCleared ==
    /\ [](isRunning <=> ActiveRuns # {})
    /\ (isRunning ~> ~isRunning)

\* C24 witness: one run left through the catch after the model load rejected, a later
\* one through the unparsable-price exit, and isRunning is clear.
RunsEndedOnErrorPaths ==
    /\ ~isRunning
    /\ runPc[1] = "errorLoad"
    /\ runPc[2] = "priceError"

\* no run in progress, no re-run pending, and the last URL change handled
Quiescent ==
    /\ ActiveRuns = {}
    /\ timers = 0
    /\ href = lastUrl

\* C25: after a navigation to a listing, once everything has settled, a valuation
\* result in the sidebar is the one computed for the page of the current URL.
FinalValuationIsCurrent ==
    (Quiescent /\ navEvents > 0 /\ isPropertyPage(currentSite, href) /\ sidebar = "result")
        => sidebarFor = BaseOf(href)

\* C26: after a navigation to a page that is no listing, the sidebar is absent until
\* the next navigation to a listing.
SidebarStaysRemoved ==
    (navEvents > 0 /\ ~isPropertyPage(currentSite, lastUrl)) => sidebar = "none"

\* C27: a change of the URL in its fragment only updates lastUrl and nothing else:
\* no re-run is scheduled, no navigation event is recorded, floorplanClickedForProperty
\* and the sidebar are left alone.
HashChangeOnlyUpdatesLastUrl ==
    [][(lastUrl' # lastUrl /\ BaseOf(lastUrl') = BaseOf(lastUrl)) =>
          /\ lastUrl' = href'
          /\ UNCHANGED <<floorplanClickedForProperty, timers, navEvents, sidebar,
                         sidebarFor, isRunning, runs, runPc, runFor>>]_vars

\* C27 witness: the lightbox fragment was added to the URL of a listing whose valuation
\* is displayed; handleUrlChange has seen it, and the valuation is still displayed with
\* no re-run pending.
HashChangeHandled ==
    /\ urlChanges = 1
    /\ navEvents = 0
    /\ lastUrl = href
    /\ Includes(lastUrl, LightboxFragment)
    /\ sidebar = "result"
    /\ timers = 0

-----------------------------------------------------------------------------
(* The analytics module (analytics.js): getDistinctId, capture, flush, init  *)
(* and the beforeunload beacon, with every await a step of its own, and the  *)
(* events PostHog receives.                                                  *)

\* calls of capture that are followed
MaxCaptures == 3

\* calls of flush that post a batch and are followed
MaxFlushes == 3

\* `eventQueue.length >= 10` (line 113)
FlushThreshold == 10

\* the listings a page can show, as window.location and content.js (lines 302-311) see them
Listings ==
    { [site |-> "rightmove", url |-> "https://www.rightmove.co.uk/properties/1",
       host |-> "www.rightmove.co.uk", pathname |-> "/properties/1",
       askingPrice |-> 3000, fairValue |-> 2500, premiumPct |-> 20, assessment |-> "overpriced",
       sizeSqft |-> 750, sizeSource |-> "ocr", bedrooms |-> 2, postcodeDistrict |-> "SW3"],
      [site |-> "rightmove", url |-> "https://www.rightmove.co.uk/properties/2",
       host |-> "www.rightmove.co.uk", pathname |-> "/properties/2",
       askingPrice |-> 2000, fairValue |-> 2000, premiumPct |-> 0, assessment |-> "fair",
       sizeSqft |-> 550, sizeSource |-> "estimated", bedrooms |-> 1, postcodeDistrict |-> "W8"] }

\* the helpers of the Analytics object that content.js calls in an init run and on navigation
EventNames == {"extension_loaded", "prediction_completed", "navigation_detected"}

\* getCurrentSite (lines 71-78)
getCurrentSite(v) == v.site

\* the second argument the helpers hand to capture (lines 203-206, 234-244, 286-289)
helperProperties(eventName, v) ==
    CASE eventName = "extension_loaded" ->
             [source_site |-> v.site, page_url |-> v.url]
      [] eventName = "prediction_completed" ->
             [asking_price |-> v.askingPrice, fair_value |-> v.fairValue,
              premium_pct |-> v.premiumPct, assessment |-> v.assessment,
              size_sqft |-> v.sizeSqft, size_source |-> v.sizeSource,
              bedrooms |-> v.bedrooms, postcode_district |-> v.postcodeDistrict,
              model_version |-> "v20"]
      [] eventName = "navigation_detected" ->
             [from_site |-> getCurrentSite(v), is_property_page |-> TRUE]

\* const event of capture (lines 90-108); the spread of the custom properties overrides
\* the standard ones, the timestamp is the position of the call in time
captureEvent(eventName, id, v, now) ==
    [event       |-> eventName,
     distinct_id |-> id,
     properties  |-> helperProperties(eventName, v) @@
                     [current_url |-> v.url, host |-> v.host, pathname |-> v.pathname,
                      extension_version |-> "manifest", source_site |-> getCurrentSite(v),
                      session_id |-> "sess"],
     timestamp   |-> now]

CaptureSlots == 1..MaxCaptures
FlushSlots   == 1..MaxFlushes

At(pc)        == [at |-> pc, id |-> 0]
AtSet(id)     == [at |-> "storageSet", id |-> id]

\* flush (lines 124-153) up to its await, called with eventQueue holding q
flush(q, pending) ==
    IF Len(q) = 0
    THEN /\ eventQueue' = q
         /\ flushTimeout' = pending
         /\ UNCHANGED <<flushPc, flushBatch, flushes>>
    ELSE /\ flushes < MaxFlushes
         /\ flushes' = flushes + 1
         /\ flushBatch' = [flushBatch EXCEPT ![flushes + 1] = q]
         /\ flushPc' = [flushPc EXCEPT ![flushes + 1] = "posting"]
         /\ eventQueue' = <<>>
         /\ flushTimeout' = FALSE

\* the end of capture (lines 110-118)
pushEvent(event) ==
    IF Len(eventQueue) + 1 >= FlushThreshold
    THEN flush(Append(eventQueue, event), flushTimeout)
    ELSE /\ eventQueue' = Append(eventQueue, event)
         /\ flushTimeout' = TRUE
         /\ UNCHANGED <<flushPc, flushBatch, flushes>>

\* init after `await getDistinctId()` (lines 162-175), then capture from line 90 on
finishInit(c, id) ==
    /\ isInitialized' = TRUE
    /\ listeners' = listeners + 1
    /\ capPc' = [capPc EXCEPT ![c] = At("done")]
    /\ pushEvent(captureEvent(capName[c], id, viewed, c))

anaOther == <<predictorVars, loadVars, clientVars, pageVars, evalVars, typeVars,
              featureVars, resultVars, navVars, ocrVars>>

\* a helper of the Analytics object is called: capture up to its first await that
\* waits for chrome.storage (lines 85-92, 158-161, 34-38)
CaptureCall(eventName) ==
    /\ ~unloaded
    /\ calls < MaxCaptures
    /\ calls' = calls + 1
    /\ capName' = [capName EXCEPT ![calls + 1] = eventName]
    /\ IF isInitialized
       THEN /\ capPc' = [capPc EXCEPT ![calls + 1] = At("done")]
            /\ pushEvent(captureEvent(eventName, distinctId, viewed, calls + 1))
            /\ UNCHANGED <<isInitialized, listeners>>
       ELSE IF distinctId # 0
       THEN /\ isInitialized' = TRUE
            /\ listeners' = listeners + 1
            /\ capPc' = [capPc EXCEPT ![calls + 1] = At("done")]
            /\ pushEvent(captureEvent(eventName, distinctId, viewed, calls + 1))
       ELSE /\ capPc' = [capPc EXCEPT ![calls + 1] = At("storageGet")]
            /\ UNCHANGED <<isInitialized, listeners, eventQueue, flushTimeout, flushPc,
                           flushBatch, flushes>>
    /\ UNCHANGED <<viewed, distinctId, storedId, uuids, received, unloaded, storageFailed>>
    /\ UNCHANGED anaOther

\* chrome.storage answers the requests in the order they were made: every get was
\* made before the first set, the gets and the sets in the order of the calls
NextGet(c) ==
    /\ capPc[c].at = "storageGet"
    /\ \A d \in 1..(c - 1) : capPc[d].at # "storageGet"

NextSet(c) ==
    /\ capPc[c].at = "storageSet"
    /\ \A d \in CaptureSlots : capPc[d].at # "storageGet"
    /\ \A e \in 1..(c - 1) : capPc[e].at # "storageSet"

\* `await chrome.storage.local.get` resolves (lines 38-45)
StorageGetResolves(c) ==
    /\ ~unloaded
    /\ NextGet(c)
    /\ IF storedId # 0
       THEN /\ distinctId' = storedId
            /\ finishInit(c, storedId)
            /\ UNCHANGED uuids
       ELSE /\ uuids' = uuids + 1
            /\ distinctId' = uuids + 1
            /\ capPc' = [capPc EXCEPT ![c] = AtSet(uuids + 1)]
            /\ UNCHANGED <<isInitialized, listeners, eventQueue, flushTimeout, flushPc,
                           flushBatch, flushes>>
    /\ UNCHANGED <<viewed, storedId, capName, calls, received, unloaded, storageFailed>>
    /\ UNCHANGED anaOther

\* `await chrome.storage.local.set` resolves (lines 44-51)
StorageSetResolves(c) ==
    /\ ~unloaded
    /\ NextSet(c)
    /\ storedId' = capPc[c].id
    /\ finishInit(c, distinctId)
    /\ UNCHANGED <<viewed, distinctId, uuids, capName, calls, received, unloaded, storageFailed>>
    /\ UNCHANGED anaOther

\* chrome.storage rejects the get or the set: the catch (lines 46-49)
StorageRejects(c) ==
    /\ ~unloaded
    /\ NextGet(c) \/ NextSet(c)
    /\ uuids' = uuids + 1
    /\ distinctId' = uuids + 1
    /\ finishInit(c, uuids + 1)
    /\ storageFailed' = TRUE
    /\ UNCHANGED <<viewed, storedId, capName, calls, received, unloaded>>
    /\ UNCHANGED anaOther

\* the callback of `setTimeout(flush, 2000)` (line 117)
FlushTimerFires ==
    /\ ~unloaded
    /\ flushTimeout
    /\ flush(eventQueue, FALSE)
    /\ UNCHANGED <<viewed, distinctId, isInitialized, storedId, uuids, listeners, capPc,
                   capName, calls, received, unloaded, storageFailed>>
    /\ UNCHANGED anaOther

\* `await fetch` resolves with an OK response (lines 132-143)
PostOk(f) ==
    /\ ~unloaded
    /\ flushPc[f] = "posting"
    /\ flushPc' = [flushPc EXCEPT ![f] = "ok"]
    /\ received' = received \o flushBatch[f]
    /\ UNCHANGED <<viewed, eventQueue, flushTimeout, distinctId, isInitialized, storedId,
                   uuids, listeners, capPc, capName, calls, flushBatch, flushes, unloaded,
                   storageFailed>>
    /\ UNCHANGED anaOther

\* a re-queue that forgets what was captured in the meantime
requeueOverwriting(events, queue) == events

\* `eventQueue = [...events, ...eventQueue]` (lines 146, 151)
requeue(events, queue) == events \o queue

\* `await fetch` resolves with a response that is not OK, or rejects (lines 143-152)
PostFails(f) ==
    /\ ~unloaded
    /\ flushPc[f] = "posting"
    /\ flushPc' = [flushPc EXCEPT ![f] = "failed"]
    /\ eventQueue' = requeue(flushBatch[f], eventQueue)
    /\ UNCHANGED <<viewed, flushTimeout, distinctId, isInitialized, storedId, uuids,
                   listeners, capPc, capName, calls, flushBatch, flushes, received,
                   unloaded, storageFailed>>
    /\ UNCHANGED anaOther

RECURSIVE Beacons(_, _)
\* every beforeunload listener sends eventQueue with sendBeacon (lines 166-175)
Beacons(n, queue) ==
    IF n = 0 \/ Len(queue) = 0 THEN <<>> ELSE queue \o Beacons(n - 1, queue)

\* the page fires beforeunload and goes away
BeforeUnload ==
    /\ ~unloaded
    /\ calls > 0
    /\ unloaded' = TRUE
    /\ received' = received \o Beacons(listeners, eventQueue)
    /\ UNCHANGED <<viewed, eventQueue, flushTimeout, distinctId, isInitialized, storedId,
                   uuids, listeners, capPc, capName, calls, flushPc, flushBatch, flushes,
                   storageFailed>>
    /\ UNCHANGED anaOther

\* the ID an earlier page view has persisted; the IDs generated on this page are 1, 2, ...
PersistedId == 0 - 1

InitAnalytics ==
    /\ PredictorFresh /\ LoadIdle /\ loadOK = FALSE
    /\ ClientIdle /\ PageIdle /\ EvalIdle /\ TypeIdle /\ FeaturesIdle /\ ResultIdle
    /\ NavIdle /\ OcrIdle
    /\ viewed \in Listings
    /\ eventQueue = <<>>
    /\ flushTimeout = FALSE
    /\ distinctId = 0
    /\ isInitialized = FALSE
    /\ storedId \in {0, PersistedId}
    /\ uuids = 0
    /\ listeners = 0
    /\ capPc = [c \in CaptureSlots |-> At("unused")]
    /\ capName = [c \in CaptureSlots |-> ""]
    /\ calls = 0
    /\ flushPc = [f \in FlushSlots |-> "unused"]
    /\ flushBatch = [f \in FlushSlots |-> <<>>]
    /\ flushes = 0
    /\ received = <<>>
    /\ unloaded = FALSE
    /\ storageFailed = FALSE

NextAnalytics ==
    \/ \E eventName \in EventNames : CaptureCall(eventName)
    \/ \E c \in CaptureSlots : StorageGetResolves(c)
    \/ \E c \in CaptureSlots : StorageSetResolves(c)
    \/ \E c \in CaptureSlots : StorageRejects(c)
    \/ FlushTimerFires
    \/ \E f \in FlushSlots : PostOk(f)
    \/ \E f \in FlushSlots : PostFails(f)
    \/ BeforeUnload

SpecAnalytics == InitAnalytics /\ [][NextAnalytics]_vars

\* the batches whose POST is in flight, one after the other
RECURSIVE Posting(_)
Posting(f) ==
    IF f = 0 THEN <<>>
    ELSE Posting(f - 1) \o (IF flushPc[f] = "posting" THEN flushBatch[f] ELSE <<>>)

\* how often the event of call c is held in seq
Occurrences(seq, c) == Cardinality({i \in 1..Len(seq) : seq[i].timestamp = c})

\* C21: no outbound request depends on the viewed listing or on the page URL: every
\* event PostHog receives is the event that would have been sent for any other listing.
NoPropertyDataLeaves ==
    \A i \in 1..Len(received) : \A v \in Listings :
        received[i] = captureEvent(received[i].event, received[i].distinct_id, v,
                                   received[i].timestamp)

AllEvents == eventQueue \o Posting(MaxFlushes) \o received

\* a request to chrome.storage is pending
StoragePending == \E c \in CaptureSlots : capPc[c].at \in {"storageGet", "storageSet"}

\* C29: chrome.storage answering every request, the initialisation takes effect once
\* per page: at most one ID is generated, one beforeunload listener is added, every
\* event carries distinctId, and distinctId is the persisted value once the requests
\* have been answered.
AnalyticsInitialisedOnce ==
    ~storageFailed =>
        /\ uuids <= 1
        /\ listeners <= 1
        /\ \A i \in 1..Len(AllEvents) : AllEvents[i].distinct_id = distinctId
        /\ (isInitialized /\ ~StoragePending) => distinctId = storedId

-----------------------------------------------------------------------------
(* ocrFloorplan (content.js 1400-1523) with every await a step of its own,   *)
(* the answer of the background service worker (background.js 6-22), and the *)
(* part of analyzeProperty that awaits it (content.js 404-422).              *)

\* the largest `beds` that is followed
MaxBedsOnPage == 6

\* estimateSqft (lines 1391-1394)
estimateSqft(beds) ==
    LET sizes == [b \in 0..5 |-> CASE b = 0 -> 350 [] b = 1 -> 500 [] b = 2 -> 750
                                   [] b = 3 -> 1000 [] b = 4 -> 1300 [] b = 5 -> 1600]
    IN  sizes[IF beds < 5 THEN beds ELSE 5]

\* what worker.recognize reads from a floorplan, with the size the patterns of lines
\* 1453-1498 take from it (0: none in range): square feet as written, square metres
\* times 10.764 and rounded
OcrReadings ==
    { [text |-> "TOTAL AREA 850 sq ft", sqft |-> 850],
      [text |-> "APPROX 79 sq m", sqft |-> 850],
      [text |-> "GROUND FLOOR  FIRST FLOOR", sqft |-> 0],
      [text |-> "", sqft |-> 0] }

\* { sqft: null, text: '' }
OcrFallback == [sqft |-> QNull, text |-> ""]

\* the object the try block returns for a reading (lines 1461-1507)
OcrResultOf(reading) ==
    [sqft |-> IF reading.sqft = 0 THEN QNull ELSE N(reading.sqft), text |-> reading.text]

Returns(value) == [kind |-> "return", value |-> value]
ThrowsOut      == [kind |-> "throw", value |-> OcrFallback]

\* a catch block that passes the error on
ocrCatchRethrows(message) == ThrowsOut

\* the catch block of ocrFloorplan (lines 1508-1511)
ocrCatch(message) == Returns(OcrFallback)

\* the async function ends with the completion the finally block lets through
ocrEnds(completion) ==
    IF completion.kind = "return"
    THEN ocrPc' = "resolved" /\ ocrSettled' = completion.value
    ELSE ocrPc' = "rejected" /\ ocrSettled' = NoResult

\* the finally block (lines 1512-1522) up to `await worker.terminate()`
ocrFinally(completion, worker) ==
    IF worker
    THEN ocrPc' = "terminate" /\ ocrPending' = completion /\ UNCHANGED ocrSettled
    ELSE ocrEnds(completion) /\ ocrPending' = completion

ocrOther == <<predictorVars, loadVars, clientVars, pageVars, evalVars, typeVars,
              featureVars, resultVars, navVars, anaVars>>

\* analyzeProperty reaches `await ocrFloorplan(floorplanUrl)` (lines 404-406);
\* ocrFloorplan runs up to its first await (lines 1400-1432)
OcrCall ==
    /\ ocrPc = "idle"
    /\ sizing' = [pc |-> "awaiting", ocrText |-> "", sizeSqft |-> pageSqft,
                  sizeSource |-> IF pageSqft # 0 THEN "page" ELSE "null"]
    /\ IF ~tesseractLoaded
       THEN /\ ocrFailure' = "tesseract_not_loaded"
            /\ ocrEnds(Returns(OcrFallback))
       ELSE /\ ocrPc' = "fetchImage"
            /\ UNCHANGED <<ocrFailure, ocrSettled>>
    /\ UNCHANGED <<tesseractLoaded, pageSqft, bedsOnPage, ocrWorker, ocrPending>>
    /\ UNCHANGED ocrOther

\* the callback of chrome.runtime.sendMessage runs (lines 1421-1430): the service
\* worker answered success with the data, or chrome.runtime.lastError is set, or it
\* answered `success: false` after fetchImageAsBase64 rejected (background.js 10-18)
FetchImageAnswers ==
    /\ ocrPc = "fetchImage"
    /\ \/ /\ ocrPc' = "createWorker"
          /\ UNCHANGED <<ocrFailure, ocrPending, ocrSettled>>
       \/ \E message \in {"lastError", "HTTP 404", "Unknown fetch error"} :
              /\ ocrFailure' = message
              /\ ocrFinally(ocrCatch(message), ocrWorker)
    /\ UNCHANGED <<tesseractLoaded, pageSqft, bedsOnPage, ocrWorker, sizing>>
    /\ UNCHANGED ocrOther

\* `await Tesseract.createWorker` settles (lines 1436-1442)
CreateWorkerSettles ==
    /\ ocrPc = "createWorker"
    /\ \/ /\ ocrWorker' = TRUE
          /\ ocrPc' = "recognize"
          /\ UNCHANGED <<ocrFailure, ocrPending, ocrSettled>>
       \/ /\ ocrFailure' = "createWorker failed"
          /\ ocrFinally(ocrCatch("createWorker failed"), ocrWorker)
          /\ UNCHANGED ocrWorker
    /\ UNCHANGED <<tesseractLoaded, pageSqft, bedsOnPage, sizing>>
    /\ UNCHANGED ocrOther

\* the race of worker.recognize with the timeout settles (lines 1444-1507): a reading,
\* a rejection of recognize, or the timeout after CONFIG.OCR_TIMEOUT
RecognizeSettles ==
    /\ ocrPc = "recognize"
    /\ \/ \E reading \in OcrReadings :
              /\ ocrFinally(Returns(OcrResultOf(reading)), ocrWorker)
              /\ UNCHANGED ocrFailure
       \/ \E message \in {"recognize failed", "timeout"} :
              /\ ocrFailure' = message
              /\ ocrFinally(ocrCatch(message), ocrWorker)
    /\ UNCHANGED <<tesseractLoaded, pageSqft, bedsOnPage, ocrWorker, sizing>>
    /\ UNCHANGED ocrOther

\* `await worker.terminate()` settles; its rejection is caught (lines 1514-1520)
TerminateSettles ==
    /\ ocrPc = "terminate"
    /\ \E terminated \in BOOLEAN : ocrEnds(ocrPending)
    /\ UNCHANGED <<tesseractLoaded, pageSqft, bedsOnPage, ocrWorker, ocrPending,
                   ocrFailure, sizing>>
    /\ UNCHANGED ocrOther

\* analyzeProperty resumes after the await (lines 406-422), or rejects with it
AnalyzeResumes ==
    /\ sizing # NoResult
    /\ sizing.pc = "awaiting"
    /\ ocrPc \in {"resolved", "rejected"}
    /\ IF ocrPc = "rejected"
       THEN sizing' = [sizing EXCEPT !.pc = "rejected"]
       ELSE LET useOcr == sizing.sizeSqft = 0 /\ ocrSettled.sqft # QNull
                sqft   == IF useOcr THEN ocrSettled.sqft.n ELSE sizing.sizeSqft
            IN  sizing' = [pc         |-> "sized",
                           ocrText    |-> ocrSettled.text,
                           sizeSqft   |-> IF sqft = 0 THEN estimateSqft(bedsOnPage) ELSE sqft,
                           sizeSource |-> IF sqft = 0 THEN "estimated"
                                          ELSE IF useOcr THEN "ocr" ELSE sizing.sizeSource]
    /\ UNCHANGED <<tesseractLoaded, pageSqft, bedsOnPage, ocrPc, ocrWorker, ocrPending,
                   ocrFailure, ocrSettled>>
    /\ UNCHANGED ocrOther

InitOcr ==
    /\ PredictorFresh /\ LoadIdle /\ loadOK = FALSE
    /\ ClientIdle /\ PageIdle /\ EvalIdle /\ TypeIdle /\ FeaturesIdle /\ ResultIdle
    /\ NavIdle /\ AnaIdle
    /\ tesseractLoaded \in BOOLEAN
    /\ pageSqft \in {0, 750}
    /\ bedsOnPage \in 1..MaxBedsOnPage
    /\ ocrPc = "idle"
    /\ ocrWorker = FALSE
    /\ ocrPending = NoResult
    /\ ocrFailure = "none"
    /\ ocrSettled = NoResult
    /\ sizing = NoResult

NextOcr ==
    \/ OcrCall
    \/ FetchImageAnswers
    \/ CreateWorkerSettles
    \/ RecognizeSettles
    \/ TerminateSettles
    \/ AnalyzeResumes

SpecOcr == InitOcr /\ [][NextOcr]_vars

\* C30: ocrFloorplan never rejects; when Tesseract is not loaded, the image fetch fails,
\* the worker creation or the recognition throws, or the timeout fires, it resolves
\* with {sqft: null, text: ''}, and analyzeProperty goes on with no OCR text and a size
\* that is not taken from the OCR.
OcrNeverRejects ==
    /\ ocrPc # "rejected"
    /\ (ocrPc = "resolved" /\ ocrFailure # "none") => ocrSettled = OcrFallback
    /\ sizing # NoResult =>
          /\ sizing.pc # "rejected"
          /\ (sizing.pc = "sized" /\ ocrFailure # "none") =>
                 /\ sizing.ocrText = ""
                 /\ sizing.sizeSource \in {"page", "estimated"}
                 /\ sizing.sizeSqft > 0

\* C30 witness: the recognition timed out with the worker created, ocrFloorplan resolved
\* with the fallback after the finally block, and analyzeProperty went on with a size
\* estimated from the bedrooms.
OcrTimedOutAndAnalyzeWentOn ==
    /\ ocrFailure = "timeout"
    /\ ocrWorker
    /\ ocrPc = "resolved"
    /\ ocrSettled = OcrFallback
    /\ sizing # NoResult
    /\ sizing.pc = "sized"
    /\ sizing.sizeSource = "estimated"
    /\ sizing.sizeSqft = estimateSqft(bedsOnPage)

====
